---- MODULE Spec2Model ----
(***************************************************************************)
(* Token-Saver: the compression engine (src/src/engine.py), its            *)
(* configuration (src/src/config.py), the processor registry and the git   *)
(* processor (src/src/processors/git.py), with the two callers of          *)
(* compress (claude/wrap.py, gemini/hook_aftertool.py).                    *)
(*                                                                         *)
(* A text is a sequence of atoms.  An atom is one character ("x", "+",     *)
(* "\n") or a fixed word the code matches as a whole ("diff --git", "@@",  *)
(* "commit"); the length of a text is the sum of its atoms' character      *)
(* counts, so len() and the ratio gate see real lengths.                   *)
(***************************************************************************)
EXTENDS Integers, Sequences, FiniteSets, TLC

VARIABLES
    cfgFile,      \* ~/.token-saver/config.json: [state, vals]
    envVars,      \* the TOKEN_SAVER_* environment variables: key -> raw string
    _config,      \* config._config: NoConfig, or the loaded table
    processors,   \* CompressionEngine.processors (the registry list)
    pc,           \* per caller: position in compress / in the caller
    host,         \* per caller: "direct", "wrap" or "gemini"
    command,      \* per caller: compress's command argument
    output,       \* per caller: compress's output argument
    min_len,      \* per caller: local min_len of compress
    min_ratio,    \* per caller: local min_ratio of compress (percent)
    selected,     \* per caller: index in processors of the selected processor
    compressed,   \* per caller: local compressed / generic_compressed
    result,       \* per caller: the returned tuple [text, name, was]
    calls,        \* per caller: the processor methods invoked, in order
    emitted,      \* per caller: what the caller hands to the host
    dLines,       \* diff scan: the lines of the diff being scanned
    dPos,         \* diff scan: number of lines consumed
    dCfg,         \* diff scan: [max_hunk, max_context]
    dScan,        \* diff scan: the loop's locals
    dPc,          \* diff scan: "scan", "done"
    dOut,         \* diff scan: the returned text
    fArg,         \* a function applied on its own: its argument
    fRet,         \* a function applied on its own: its return value
    fPc,          \* a function applied on its own: "off", the call pending, "done"
    store,        \* savings.db: [file, tables] with the committed content, the
                  \* state it was found in, and whether its disk fails writes
    conn,         \* per tracker: self.conn, [open, tx] with the pending writes
    kpc,          \* per tracker: how far SavingsTracker.__init__ has come
    lock,         \* per tracker: the thread that holds SavingsTracker._lock
    wk,           \* per thread that records savings: its position and locals
    clock,        \* time.time(), in days
    tracking      \* per caller: how the host's attempt to record the saving ended

engineVars == <<cfgFile, envVars, _config, processors, pc, host, command, output,
                min_len, min_ratio, selected, compressed, result, calls, emitted>>
diffVars == <<dLines, dPos, dCfg, dScan, dPc, dOut>>
fnVars == <<fArg, fRet, fPc>>
trackerVars == <<store, conn, kpc, lock, wk, clock, tracking>>
vars == <<engineVars, diffVars, fnVars, trackerVars>>
\* what the engine's actions leave alone, what the diff scanner's do, and
\* what the application of a single function does
outsideEngine == <<diffVars, fnVars, trackerVars>>
outsideDiff == <<engineVars, fnVars, trackerVars>>
outsideFn == <<engineVars, diffVars, trackerVars>>

-----------------------------------------------------------------------------
(* Bounds *)

\* longest output, in lines, handed to compress
MaxLines == 2
\* longest diff, in lines, handed to the diff scanner
MaxDiffLines == 4
\* deepest nesting of a JSON value handed to the cloud-CLI summarizer
MaxJsonDepth == 5
\* longest lint output, in lines, before its run of failure lines
MaxLintLines == 3
\* longest run of failure lines that ends a lint output
MaxLintTail == 6
\* longest pytest output, in lines
MaxPytestLines == 4
\* longest warnings section, in lines
MaxWarningLines == 4
\* most application variables, and most system variables, of an env output
MaxEnvVars == 11
\* longest list handed to a summarizer
MaxListLen == 7

-----------------------------------------------------------------------------
(* Text primitives *)

NL == "\n"
SP == " "
\* one ANSI control sequence, "\x1b[0m": four characters
ESC == "ESC"

CharLen(c) == IF c = ESC THEN 4 ELSE Len(c)

RECURSIVE TextLen(_)
TextLen(t) == IF t = <<>> THEN 0 ELSE CharLen(Head(t)) + TextLen(Tail(t))

IsSpace(c) == c \in {SP, NL}

RECURSIVE SplitAcc(_, _, _)
SplitAcc(t, cur, acc) ==
    IF t = <<>> THEN (IF cur = <<>> THEN acc ELSE Append(acc, cur))
    ELSE IF Head(t) = NL THEN SplitAcc(Tail(t), <<>>, Append(acc, cur))
    ELSE SplitAcc(Tail(t), Append(cur, Head(t)), acc)

\* str.splitlines(): no empty last element after a final newline
SplitLines(t) == SplitAcc(t, <<>>, <<>>)

RECURSIVE JoinLines(_)
\* "\n".join(lines)
JoinLines(ls) ==
    IF ls = <<>> THEN <<>>
    ELSE IF Len(ls) = 1 THEN ls[1]
    ELSE ls[1] \o <<NL>> \o JoinLines(Tail(ls))

RECURSIVE LStrip(_)
LStrip(t) == IF t # <<>> /\ IsSpace(Head(t)) THEN LStrip(Tail(t)) ELSE t

RECURSIVE RStrip(_)
RStrip(t) ==
    IF t # <<>> /\ IsSpace(t[Len(t)]) THEN RStrip(SubSeq(t, 1, Len(t) - 1)) ELSE t

\* str.strip()
Strip(t) == RStrip(LStrip(t))

\* str.startswith(prefix)
StartsWith(t, prefix) ==
    Len(t) >= Len(prefix) /\ SubSeq(t, 1, Len(prefix)) = prefix

RECURSIVE WordsAcc(_, _, _)
WordsAcc(t, cur, acc) ==
    IF t = <<>> THEN (IF cur = <<>> THEN acc ELSE Append(acc, cur))
    ELSE IF IsSpace(Head(t))
         THEN WordsAcc(Tail(t), <<>>, IF cur = <<>> THEN acc ELSE Append(acc, cur))
    ELSE WordsAcc(Tail(t), Append(cur, Head(t)), acc)

\* str.split(): the maximal runs of non-whitespace
Words(t) == WordsAcc(t, <<>>, <<>>)

RECURSIVE TakeChars(_, _)
\* s[:n] for n >= 0, on a word of one-character atoms
TakeChars(t, n) ==
    IF t = <<>> \/ CharLen(Head(t)) > n THEN <<>>
    ELSE <<Head(t)>> \o TakeChars(Tail(t), n - CharLen(Head(t)))

\* seq[:n], Python's slice with a possibly negative end
SliceTo(s, n) ==
    IF n >= 0 THEN SubSeq(s, 1, IF n < Len(s) THEN n ELSE Len(s))
    ELSE SubSeq(s, 1, IF Len(s) + n > 0 THEN Len(s) + n ELSE 0)

\* seq[-n:], Python's slice from a negated start; seq[-0:] is the whole list
SliceLast(s, n) ==
    IF n > 0 THEN SubSeq(s, IF Len(s) - n + 1 > 1 THEN Len(s) - n + 1 ELSE 1, Len(s))
    ELSE IF n = 0 THEN s
    ELSE SubSeq(s, IF -n + 1 > Len(s) + 1 THEN Len(s) + 1 ELSE -n + 1, Len(s))

\* a is a subsequence of b (the elements of a appear in b, in order)
RECURSIVE IsSubseq(_, _)
IsSubseq(a, b) ==
    IF a = <<>> THEN TRUE
    ELSE IF b = <<>> THEN FALSE
    ELSE IF Head(a) = Head(b) THEN IsSubseq(Tail(a), Tail(b))
    ELSE IsSubseq(a, Tail(b))

\* the sequences over S of length at most n
RECURSIVE SeqsUpTo(_, _)
SeqsUpTo(S, n) ==
    IF n = 0 THEN {<<>>}
    ELSE LET shorter == SeqsUpTo(S, n - 1)
         IN shorter \cup {Append(s, x) : s \in {q \in shorter : Len(q) = n - 1}, x \in S}

-----------------------------------------------------------------------------
(* Configuration: src/src/config.py.  min_compression_ratio is held in     *)
(* percent (0.10 is 10).  Only the keys read by the modelled code appear.  *)

_DEFAULTS ==
    [enabled |-> TRUE,
     min_input_length |-> 200,
     min_compression_ratio |-> 10,
     max_diff_hunk_lines |-> 150,
     max_diff_context_lines |-> 3,
     max_log_entries |-> 20,
     generic_truncate_threshold |-> 500,
     generic_keep_head |-> 200,
     generic_keep_tail |-> 100,
     lint_example_count |-> 2,
     lint_group_threshold |-> 3,
     max_traceback_lines |-> 30]

ConfigKeys == DOMAIN _DEFAULTS

\* isinstance(default_val, bool / int / float)
KeyType(k) ==
    IF k = "enabled" THEN "bool"
    ELSE IF k = "min_compression_ratio" THEN "float"
    ELSE "int"

\* int(env_val) on the raw strings used; any other string raises ValueError
IntOf == ("0" :> 0) @@ ("1" :> 1) @@ ("2" :> 2) @@ ("4" :> 4) @@ ("-1" :> -1)

\* float(env_val), in percent
FloatOf == ("0" :> 0) @@ ("1" :> 100) @@ ("2" :> 200) @@ ("4" :> 400)
           @@ ("-1" :> -100) @@ ("0.5" :> 50) @@ ("0.1" :> 10)

\* env_val.lower()
Lower(s) == IF s = "TRUE" THEN "true" ELSE IF s = "False" THEN "false" ELSE s

\* one key of the environment overlay
EnvOverride(k, raw, current) ==
    IF KeyType(k) = "bool" THEN Lower(raw) \in {"1", "true", "yes"}
    ELSE IF KeyType(k) = "int"
         THEN (IF raw \in DOMAIN IntOf THEN IntOf[raw] ELSE current)
    ELSE (IF raw \in DOMAIN FloatOf THEN FloatOf[raw] ELSE current)

\* defaults, then the file (ignored when unreadable or invalid), then the environment
_load_config(file, env) ==
    LET fromFile == [k \in ConfigKeys |->
                        IF file.state = "ok" /\ k \in DOMAIN file.vals
                        THEN file.vals[k] ELSE _DEFAULTS[k]]
    IN [k \in ConfigKeys |->
            IF k \in DOMAIN env THEN EnvOverride(k, env[k], fromFile[k])
            ELSE fromFile[k]]

NoConfig == [loaded |-> FALSE]

\* a table that is loaded anew at every get
ConfigTableFresh(cache, file, env) ==
    _load_config(file, env)

\* the table config.get reads: loaded on first use, then kept
ConfigTable(cache, file, env) ==
    IF cache.loaded THEN cache.table ELSE _load_config(file, env)

\* a get that keeps the defaults in config._config instead of the loaded table
ConfigAfterGetDefaults(cache, file, env) ==
    [loaded |-> TRUE, table |-> _DEFAULTS]

\* config._config after a get
ConfigAfterGet(cache, file, env) ==
    [loaded |-> TRUE, table |-> ConfigTable(cache, file, env)]

NoVals == [k \in {} |-> 0]

\* the persisted file and environment a process may start with
ConfigSources ==
    { [file |-> [state |-> "absent", vals |-> NoVals], env |-> NoVals],
      [file |-> [state |-> "ok", vals |-> ("min_input_length" :> 0)], env |-> NoVals],
      [file |-> [state |-> "ok", vals |-> ("min_input_length" :> 4)],
       env |-> ("min_compression_ratio" :> "0.5")],
      [file |-> [state |-> "ok", vals |-> ("min_input_length" :> 200)],
       env |-> ("min_input_length" :> "0") @@ ("min_compression_ratio" :> "0")],
      [file |-> [state |-> "ok", vals |-> ("min_input_length" :> 0)],
       env |-> ("enabled" :> "False")],
      [file |-> [state |-> "ok",
                 vals |-> ("min_input_length" :> 0) @@ ("max_diff_hunk_lines" :> 1)
                          @@ ("max_log_entries" :> 1)
                          @@ ("generic_truncate_threshold" :> 2)
                          @@ ("generic_keep_head" :> 1) @@ ("generic_keep_tail" :> 1)],
       env |-> ("min_compression_ratio" :> "0") @@ ("max_log_entries" :> "abc")],
      [file |-> [state |-> "corrupt", vals |-> ("min_input_length" :> 0)],
       env |-> ("enabled" :> "TRUE") @@ ("min_input_length" :> "4")] }

-----------------------------------------------------------------------------
(* The processor registry.  Each processor: its name, its priority and     *)
(* handles, the commands of CommandSet that its can_handle accepts.        *)

CommandSet == {"git diff", "git log | grep x", "git stash", "foo"}

\* a GitProcessor declared with the priority of TestOutputProcessor
GitProcessorPriority21 ==
    [name |-> "git", priority |-> 21,
     handles |-> {"git diff", "git log | grep x", "git stash"}]

GitProcessor ==
    [name |-> "git", priority |-> 20,
     handles |-> {"git diff", "git log | grep x", "git stash"}]
TestOutputProcessor == [name |-> "test", priority |-> 21, handles |-> {}]
BuildOutputProcessor == [name |-> "build", priority |-> 25, handles |-> {}]
LintOutputProcessor == [name |-> "lint", priority |-> 27, handles |-> {}]
NetworkProcessor == [name |-> "network", priority |-> 30, handles |-> {}]
DockerProcessor == [name |-> "docker", priority |-> 31, handles |-> {}]
KubectlProcessor == [name |-> "kubectl", priority |-> 32, handles |-> {}]
TerraformProcessor == [name |-> "terraform", priority |-> 33, handles |-> {}]
\* re.match(r"^\s*(env|printenv|set)\s*$", command)
EnvProcessor == [name |-> "env", priority |-> 34, handles |-> {"env", "printenv"}]
SearchProcessor ==
    [name |-> "search", priority |-> 35, handles |-> {"git log | grep x"}]
SystemInfoProcessor == [name |-> "system_info", priority |-> 36, handles |-> {}]
GhProcessor == [name |-> "gh", priority |-> 37, handles |-> {}]
DbQueryProcessor == [name |-> "db_query", priority |-> 38, handles |-> {}]
CloudCliProcessor == [name |-> "cloud_cli", priority |-> 39, handles |-> {}]
FileListingProcessor == [name |-> "file_listing", priority |-> 50, handles |-> {}]
FileContentProcessor == [name |-> "file_content", priority |-> 51, handles |-> {}]
\* the fallback: priority 999, can_handle accepts every command
GenericProcessor ==
    [name |-> "generic", priority |-> 999, handles |-> CommandSet \cup {"env", "printenv"}]

ProcessorClasses ==
    {GitProcessor, TestOutputProcessor, BuildOutputProcessor, LintOutputProcessor,
     NetworkProcessor, DockerProcessor, KubectlProcessor, TerraformProcessor,
     EnvProcessor, SearchProcessor, SystemInfoProcessor, GhProcessor,
     DbQueryProcessor, CloudCliProcessor, FileListingProcessor,
     FileContentProcessor, GenericProcessor}

RECURSIVE SortByPriority(_)
\* sorted(classes, key = priority)
SortByPriority(S) ==
    IF S = {} THEN <<>>
    ELSE LET least == CHOOSE p \in S : \A q \in S : p.priority <= q.priority
         IN <<least>> \o SortByPriority(S \ {least})

\* the registry's construction-time assertion
RegistryValid(ps) ==
    /\ ps # <<>>
    /\ \A i \in 1..(Len(ps) - 1) : ps[i].priority < ps[i + 1].priority
    /\ ps[Len(ps)].name = "generic"

\* discover_processors(): all processors, ascending by priority; construction
\* fails (no registry) when the assertion does not hold
discover_processors ==
    LET sorted == SortByPriority(ProcessorClasses)
    IN IF RegistryValid(sorted) THEN sorted ELSE <<>>

can_handle(p, cmd) == cmd \in p.handles

\* self._generic = self.processors[-1], as an index
GenericIndex(ps) == Len(ps)

\* a loop without the break: the last processor whose can_handle accepts
LastMatch(ps, cmd) ==
    IF \E i \in 1..Len(ps) : can_handle(ps[i], cmd)
    THEN CHOOSE i \in 1..Len(ps) :
            /\ can_handle(ps[i], cmd)
            /\ \A j \in (i + 1)..Len(ps) : ~can_handle(ps[j], cmd)
    ELSE 0

\* the loop of compress: the first processor whose can_handle accepts; 0 if none
FirstMatch(ps, cmd) ==
    IF \E i \in 1..Len(ps) : can_handle(ps[i], cmd)
    THEN CHOOSE i \in 1..Len(ps) :
            /\ can_handle(ps[i], cmd)
            /\ \A j \in 1..(i - 1) : ~can_handle(ps[j], cmd)
    ELSE 0

-----------------------------------------------------------------------------
(* GitProcessor._process_diff: src/src/processors/git.py.  The loop body   *)
(* is DiffStep, one line at a time over the locals of the loop.            *)

\* the atom for the text matched by \d+ files? changed
STAT_SUMMARY == "1 file changed"

IsDiffGit(line) == StartsWith(line, <<"diff --git">>)
IsMeta(line) ==
    \/ StartsWith(line, <<"index", SP>>)
    \/ StartsWith(line, <<"-", "-", "-">>)
    \/ StartsWith(line, <<"+", "+", "+">>)
IsHunkMarker(line) == StartsWith(line, <<"@@">>)
IsChange(line) == StartsWith(line, <<"+">>) \/ StartsWith(line, <<"-">>)
IsContext(line) == StartsWith(line, <<SP>>)
IsStatSummary(line) == StartsWith(LStrip(line), <<STAT_SUMMARY>>)

\* the branch of the if/elif chain that a line takes
LineKind(line) ==
    IF IsDiffGit(line) THEN "diffgit"
    ELSE IF IsMeta(line) THEN "meta"
    ELSE IF IsHunkMarker(line) THEN "hunk"
    ELSE IF IsChange(line) THEN "change"
    ELSE IF IsContext(line) THEN "context"
    ELSE IF IsStatSummary(line) THEN "stat"
    ELSE "other"

\* f"  ... (truncated after {max_hunk} lines)"
TruncNotice(max_hunk) == <<"  ... (truncated after ", ToString(max_hunk), " lines)">>

DiffScanInit ==
    [result |-> <<>>, hunk_line_count |-> 0, hunk_truncated |-> FALSE,
     stat_line |-> <<>>, leading_buffer |-> <<>>, trailing_remaining |-> 0]

\* a marker line that leaves the line counter of the hunk before it running
MarkerStepKeepCount(s, line, max_hunk) ==
    [s EXCEPT !.leading_buffer = <<>>,
              !.trailing_remaining = 0,
              !.result = (IF s.hunk_truncated
                          THEN Append(s.result, TruncNotice(max_hunk))
                          ELSE s.result) \o <<line>>,
              !.hunk_truncated = FALSE]

\* a "diff --git" or "@@" line
MarkerStep(s, line, max_hunk) ==
    [s EXCEPT !.leading_buffer = <<>>,
              !.trailing_remaining = 0,
              !.result = (IF s.hunk_truncated
                          THEN Append(s.result, TruncNotice(max_hunk))
                          ELSE s.result) \o <<line>>,
              !.hunk_line_count = 0,
              !.hunk_truncated = FALSE]

\* a line starting with "+" or "-"
ChangeStep(s, line, max_hunk, max_context) ==
    IF s.hunk_line_count + 1 <= max_hunk
    THEN [s EXCEPT !.hunk_line_count = s.hunk_line_count + 1,
                   !.result = (IF s.leading_buffer # <<>>
                               THEN s.result \o SliceLast(s.leading_buffer, max_context)
                               ELSE s.result) \o <<line>>,
                   !.leading_buffer = <<>>,
                   !.trailing_remaining = max_context]
    ELSE [s EXCEPT !.hunk_line_count = s.hunk_line_count + 1,
                   !.hunk_truncated = TRUE]

\* a context line that is appended whatever the trailing allowance is
ContextStepAlways(s, line, max_hunk) ==
    IF s.hunk_line_count + 1 <= max_hunk
    THEN [s EXCEPT !.hunk_line_count = s.hunk_line_count + 1,
                   !.result = Append(s.result, line)]
    ELSE [s EXCEPT !.hunk_line_count = s.hunk_line_count + 1,
                   !.hunk_truncated = TRUE]

\* a line starting with a space
ContextStep(s, line, max_hunk) ==
    IF s.hunk_line_count + 1 <= max_hunk
    THEN IF s.trailing_remaining > 0
         THEN [s EXCEPT !.hunk_line_count = s.hunk_line_count + 1,
                        !.result = Append(s.result, line),
                        !.trailing_remaining = s.trailing_remaining - 1]
         ELSE [s EXCEPT !.hunk_line_count = s.hunk_line_count + 1,
                        !.leading_buffer = Append(s.leading_buffer, line)]
    ELSE [s EXCEPT !.hunk_line_count = s.hunk_line_count + 1,
                   !.hunk_truncated = TRUE]

\* one iteration of the for loop
DiffStep(s, line, max_hunk, max_context) ==
    LET kind == LineKind(line)
    IN IF kind \in {"diffgit", "hunk"} THEN MarkerStep(s, line, max_hunk)
       ELSE IF kind = "meta" THEN s
       ELSE IF kind = "change" THEN ChangeStep(s, line, max_hunk, max_context)
       ELSE IF kind = "context" THEN ContextStep(s, line, max_hunk)
       ELSE IF kind = "stat" THEN [s EXCEPT !.stat_line = line]
       ELSE s

\* after the loop: the pending notice, the stat line, the join
DiffFinish(s, max_hunk) ==
    JoinLines(s.result
              \o (IF s.hunk_truncated THEN <<TruncNotice(max_hunk)>> ELSE <<>>)
              \o (IF s.stat_line # <<>> THEN <<s.stat_line>> ELSE <<>>))

RECURSIVE DiffScan(_, _, _, _)
DiffScan(s, lines, max_hunk, max_context) ==
    IF lines = <<>> THEN s
    ELSE DiffScan(DiffStep(s, Head(lines), max_hunk, max_context),
                  Tail(lines), max_hunk, max_context)

RECURSIVE DropTrailing(_, _)
DropTrailing(t, S) ==
    IF t # <<>> /\ t[Len(t)] \in S THEN DropTrailing(SubSeq(t, 1, Len(t) - 1), S) ELSE t

\* one line of _process_diff_stat: " path | 5 ++-" becomes " path | 5";
\* the regex is ^(\s*.+?\s+\|\s+\d+)\s+[+\-]+\s*$
DiffStatLine(line) ==
    LET noTail == DropTrailing(line, {SP})
        noBars == DropTrailing(noTail, {"+", "-"})
        group1 == DropTrailing(noBars, {SP})
        noNum == DropTrailing(group1, {"0", "1", "2", "3", "4", "5", "6", "7", "8", "9"})
        noGap == DropTrailing(noNum, {SP})
        path == IF noGap = <<>> THEN <<>> ELSE SubSeq(noGap, 1, Len(noGap) - 1)
        matches ==
            /\ Len(noBars) < Len(noTail)
            /\ Len(group1) < Len(noBars)
            /\ Len(noNum) < Len(group1)
            /\ Len(noGap) < Len(noNum)
            /\ noGap # <<>> /\ noGap[Len(noGap)] = "|"
            /\ Len(path) >= 2 /\ path[Len(path)] = SP
    IN IF matches THEN group1 ELSE line

_process_diff_stat(lines) ==
    JoinLines([i \in 1..Len(lines) |-> DiffStatLine(lines[i])])

\* _process_diff(output, command); no command of CommandSet carries
\* --name-only or --name-status, so _process_name_list is never entered
_process_diff(out, max_hunk, max_context) ==
    LET lines == SplitLines(out)
    IN IF lines # <<>> /\ ~\E i \in 1..Len(lines) : IsDiffGit(lines[i])
       THEN _process_diff_stat(lines)
       ELSE DiffFinish(DiffScan(DiffScanInit, lines, max_hunk, max_context), max_hunk)

-----------------------------------------------------------------------------
(* GitProcessor._process_log and GitProcessor.process.  A processor call   *)
(* yields [raised, text]: raised when the code raises an exception.        *)

Returned(t) == [raised |-> FALSE, text |-> t]
Raised == [raised |-> TRUE, text |-> <<>>]

GraphChars == {"|", "*", "/", "\\"}

\* re.match(r"^[|*/\\ ]*[|*/\\]", line)
IsGraphLine(line) ==
    \E i \in 1..Len(line) :
        /\ line[i] \in GraphChars
        /\ \A j \in 1..(i - 1) : line[j] \in GraphChars \cup {SP}

\* re.search(r"--graph\b", command) on CommandSet
HasGraphFlag(cmd) == cmd \in {}

IsCommitLine(line) == StartsWith(line, <<"commit", SP>>)

IsLogHeader(line) ==
    \/ StartsWith(line, <<"Author:">>)
    \/ StartsWith(line, <<"Merge:">>)
    \/ StartsWith(line, <<"Date:">>)

RECURSIVE LogEntries(_, _, _)
\* the grouping loop: a "commit " line closes the current entry and opens one
LogEntries(lines, current, entries) ==
    IF lines = <<>>
    THEN (IF current # <<>> THEN Append(entries, current) ELSE entries)
    ELSE IF IsCommitLine(Head(lines))
         THEN LogEntries(Tail(lines), <<Head(lines)>>,
                         IF current # <<>> THEN Append(entries, current) ELSE entries)
    ELSE LogEntries(Tail(lines), Append(current, Head(lines)), entries)

\* line.split()[1] raises IndexError when the line has fewer than two words
EntryRaises(entry) ==
    \E i \in 1..Len(entry) : IsCommitLine(entry[i]) /\ Len(Words(entry[i])) < 2

\* commit_hash: set by each "commit " line of the entry (there is one, the first)
EntryHash(entry) ==
    IF \E i \in 1..Len(entry) : IsCommitLine(entry[i])
    THEN LET last == CHOOSE i \in 1..Len(entry) :
                        /\ IsCommitLine(entry[i])
                        /\ \A j \in (i + 1)..Len(entry) : ~IsCommitLine(entry[j])
         IN TakeChars(Words(entry[last])[2], 8)
    ELSE <<>>

\* message: the first non-blank line that is neither "commit " nor a header
EntryMessage(entry) ==
    LET isMsg(i) == /\ ~IsCommitLine(entry[i])
                    /\ Strip(entry[i]) # <<>>
                    /\ ~IsLogHeader(entry[i])
    IN IF \E i \in 1..Len(entry) : isMsg(i)
       THEN Strip(entry[CHOOSE i \in 1..Len(entry) :
                            isMsg(i) /\ \A j \in 1..(i - 1) : ~isMsg(j)])
       ELSE <<>>

_process_log(out, cmd, max_entries) ==
    LET lines == SplitLines(out)
        has_graph == \/ HasGraphFlag(cmd)
                     \/ \E i \in 1..Len(lines) : i <= 10 /\ IsGraphLine(lines[i])
        entries == LogEntries(lines, <<>>, <<>>)
        shown == SliceTo(entries, max_entries)
    IN IF has_graph
       THEN (IF Len(lines) > max_entries * 4
             THEN Returned(JoinLines(Append(SliceTo(lines, max_entries * 4),
                     <<"... (", ToString(Len(lines) - max_entries * 4), " more lines)">>)))
             ELSE Returned(out))
       ELSE IF lines # <<>> /\ ~IsCommitLine(lines[1])
       THEN (IF Len(lines) > max_entries
             THEN Returned(JoinLines(SliceTo(lines, max_entries))
                           \o <<NL, "... (", ToString(Len(lines) - max_entries), " more)">>)
             ELSE Returned(out))
       ELSE IF \E i \in 1..Len(shown) : EntryRaises(shown[i])
       THEN Raised
       ELSE Returned(JoinLines(
                [i \in 1..Len(shown) |->
                    EntryHash(shown[i]) \o <<SP>> \o EntryMessage(shown[i])]
                \o (IF Len(entries) > max_entries
                    THEN << <<"... (", ToString(Len(entries) - max_entries),
                              " more commits)">> >>
                    ELSE <<>>)))

\* _get_subcmd: group 1 of _GIT_CMD_RE on the commands of CommandSet
_get_subcmd(cmd) ==
    IF cmd = "git diff" THEN "diff"
    ELSE IF cmd = "git log | grep x" THEN "log"
    ELSE IF cmd = "git stash" THEN "stash"
    ELSE "none"

\* GitProcessor.process, for the subcommands of CommandSet ("git stash" is not
\* "stash list": its output is returned as it is)
GitProcess(cmd, out, cfg) ==
    IF out = <<>> \/ Strip(out) = <<>> THEN Returned(out)
    ELSE IF _get_subcmd(cmd) = "diff"
         THEN Returned(_process_diff(out, cfg.max_diff_hunk_lines,
                                     cfg.max_diff_context_lines))
    ELSE IF _get_subcmd(cmd) = "log"
         THEN _process_log(out, cmd, cfg.max_log_entries)
    ELSE Returned(out)

-----------------------------------------------------------------------------
(* GenericProcessor (src/processors/generic.py): clean strips control      *)
(* sequences and collapses blank lines; process also collapses runs of     *)
(* identical lines and truncates to a head and a tail.  The texts here     *)
(* carry no digits, so near-duplicate numeric collapsing changes nothing.  *)

RECURSIVE StripAnsi(_)
StripAnsi(t) ==
    IF t = <<>> THEN <<>>
    ELSE IF Head(t) = ESC THEN StripAnsi(Tail(t))
    ELSE <<Head(t)>> \o StripAnsi(Tail(t))

RECURSIVE CollapseBlank(_, _)
\* at most one blank line in a row: a run of newlines keeps its first two
CollapseBlank(t, run) ==
    IF t = <<>> THEN <<>>
    ELSE IF Head(t) = NL
         THEN (IF run >= 2 THEN CollapseBlank(Tail(t), run + 1)
               ELSE <<NL>> \o CollapseBlank(Tail(t), run + 1))
    ELSE <<Head(t)>> \o CollapseBlank(Tail(t), 0)

\* GenericProcessor.clean
GenericClean(t) == CollapseBlank(StripAnsi(t), 0)

RECURSIVE RunLength(_, _)
\* how many of the first lines equal the given line
RunLength(lines, line) ==
    IF lines # <<>> /\ Head(lines) = line THEN 1 + RunLength(Tail(lines), line) ELSE 0

RECURSIVE CollapseRepeats(_)
\* a run of n >= 2 identical non-blank lines becomes "line (xn)"
CollapseRepeats(lines) ==
    IF lines = <<>> THEN <<>>
    ELSE LET n == RunLength(lines, Head(lines))
         IN IF n >= 2 /\ Strip(Head(lines)) # <<>>
            THEN <<Head(lines) \o <<" (x", ToString(n), ")">> >>
                 \o CollapseRepeats(SubSeq(lines, n + 1, Len(lines)))
            ELSE <<Head(lines)>> \o CollapseRepeats(Tail(lines))

\* head/tail truncation above generic_truncate_threshold lines
TruncateMiddle(lines, cfg) ==
    IF Len(lines) > cfg.generic_truncate_threshold
    THEN SliceTo(lines, cfg.generic_keep_head)
         \o << <<"... (", ToString(Len(lines) - cfg.generic_keep_head
                                   - cfg.generic_keep_tail), " lines truncated)">> >>
         \o SliceLast(lines, cfg.generic_keep_tail)
    ELSE lines

\* GenericProcessor.process
GenericProcess(out, cfg) ==
    IF out = <<>> \/ Strip(out) = <<>> THEN Returned(out)
    ELSE Returned(JoinLines(TruncateMiddle(
            CollapseRepeats(SplitLines(GenericClean(out))), cfg)))

-----------------------------------------------------------------------------
(* EnvProcessor.process: src/src/processors/env.py.  A variable's name is  *)
(* a run of atoms before the atom "=", its value the atoms after it.       *)

\* the line of app_vars for one line of the output, <<>> for a skipped line,
\* <<"system">> for a hidden one
EnvLine(line) ==
    LET \* the prefixes of _SYSTEM_PREFIXES that the names of the model start with
        prefixes == {"TERM", "SSH_", "_"}
        \* _SENSITIVE_PATTERNS.search(key): a word of the pattern in the name,
        \* in either case
        IsSensitive(key) ==
            \E i \in 1..Len(key) : key[i] \in {"KEY", "key", "SECRET", "TOKEN", "AUTH"}
        stripped == Strip(line)
        eq == CHOOSE i \in 1..Len(stripped) :
                stripped[i] = "=" /\ \A j \in 1..(i - 1) : stripped[j] # "="
        key == SubSeq(stripped, 1, eq - 1)
        value == SubSeq(stripped, eq + 1, Len(stripped))
        RECURSIVE Split(_, _, _)
        \* value.split(":")
        Split(t, cur, acc) ==
            IF t = <<>> THEN Append(acc, cur)
            ELSE IF Head(t) = ":" THEN Split(Tail(t), <<>>, Append(acc, cur))
            ELSE Split(Tail(t), Append(cur, Head(t)), acc)
        parts == Split(value, <<>>, <<>>)
    IN IF stripped = <<>> \/ \A i \in 1..Len(stripped) : stripped[i] # "=" THEN <<>>
       ELSE IF key # <<>> /\ Head(key) \in prefixes THEN <<"system">>
       ELSE IF IsSensitive(key) THEN <<"  ">> \o key \o <<"=", "***">>
       ELSE IF TextLen(value) > 200 THEN
            IF Len(parts) > 3
            THEN <<"  ">> \o key \o <<"=">> \o parts[1] \o <<":">> \o parts[2]
                 \o <<":">> \o parts[3]
                 \o <<":... (", ToString(Len(parts)), " total entries)">>
            ELSE <<"  ">> \o key \o <<"=">> \o TakeChars(value, 150)
                 \o <<"... (", ToString(TextLen(value)), " chars)">>
       ELSE <<"  ">> \o stripped

EnvProcess(out) ==
    LET lines == SplitLines(out)
        kept == [i \in 1..Len(lines) |-> EnvLine(lines[i])]
        app_vars == SelectSeq(kept, LAMBDA l : l # <<>> /\ l # <<"system">>)
        system_count == Len(SelectSeq(kept, LAMBDA l : l = <<"system">>))
        sensitive_redacted ==
            Len(SelectSeq(app_vars, LAMBDA l : l[Len(l)] = "***"))
        notes == (IF system_count > 0
                  THEN <<ToString(system_count), " system vars hidden">> ELSE <<>>)
                 \o (IF system_count > 0 /\ sensitive_redacted > 0 THEN <<", ">> ELSE <<>>)
                 \o (IF sensitive_redacted > 0
                     THEN <<ToString(sensitive_redacted), " sensitive values redacted">>
                     ELSE <<>>)
    IN IF out = <<>> \/ Strip(out) = <<>> THEN out
       ELSE IF Len(lines) <= 10 THEN out
       ELSE JoinLines(
              << <<ToString(Len(lines)), " environment variables (",
                   ToString(Len(app_vars)), " application-relevant):">> >>
              \o app_vars
              \o (IF notes # <<>> THEN << <<"(">> \o notes \o <<")">> >> ELSE <<>>))

\* processor.process(command, output) for the processors CommandSet selects
\* and for env
Process(p, cmd, out, cfg) ==
    IF p.name = "git" THEN GitProcess(cmd, out, cfg)
    ELSE IF p.name = "env" THEN Returned(EnvProcess(out))
    ELSE GenericProcess(out, cfg)

-----------------------------------------------------------------------------
(* CompressionEngine.compress (src/src/engine.py) and its callers.  Each   *)
(* caller runs compress step by step; config._config is shared.            *)

Threads == {"t1", "t2"}
Hosts == {"direct", "wrap", "gemini"}

\* the lines an output is made of
EngineLines ==
    { <<"commit", SP, "x">>, <<"commit", SP>>, <<"x">>, <<ESC, "x", "x", "x", "x">>,
      <<>>, <<"diff --git">>, <<"+", "x">> }

\* the outputs handed to compress: lines joined, with or without a final newline
OutputSet ==
    LET joined == {JoinLines(ls) : ls \in SeqsUpTo(EngineLines, MaxLines)}
    IN joined \cup {t \o <<NL>> : t \in joined}

NoResult == [text |-> <<>>, name |-> "", was |-> FALSE]
NoEmit == [kind |-> "none", text |-> <<>>]

\* a gate that compares with the default ratio, not the configured one
MeetsDefaultRatio(original_len, compressed_len, ratio) ==
    IF original_len > 0
    THEN (original_len - compressed_len) * 100
         >= _DEFAULTS.min_compression_ratio * original_len
    ELSE 0 >= _DEFAULTS.min_compression_ratio

\* gain >= min_ratio, with gain = (original_len - compressed_len) / original_len
\* and gain = 0 for an empty original; min_ratio in percent
MeetsRatio(original_len, compressed_len, ratio) ==
    IF original_len > 0
    THEN (original_len - compressed_len) * 100 >= ratio * original_len
    ELSE 0 >= ratio

\* a length test that is one short of min_len
TooShortByTwo(len, least) == len < least - 1

\* len(output) < min_len
TooShort(len, least) == len < least

\* a return of the processed text where the original is due
PassThroughProcessed(out, comp) == comp

\* the text returned when nothing met the ratio: the original output
PassThrough(out, comp) == out

\* a fallback pass fed with the specialized processor's result
FallbackOnCompressed(out, comp) == comp

\* the text the fallback pass works on: the original output
FallbackInput(out, comp) == out

\* a specialized result that skips the clean pass
NoCleanAfter(comp) == comp

\* the text whose gain is measured after a specialized processor
CleanAfter(comp) == GenericClean(comp)

Return(t, text, name, was) ==
    /\ result' = [result EXCEPT ![t] = [text |-> text, name |-> name, was |-> was]]
    /\ pc' = [pc EXCEPT ![t] = "returned"]

\* a caller invokes compress: wrap.py only with a non-blank output, the Gemini
\* hook only with a non-empty one
CallWith(t, H, C, O) ==
    /\ pc[t] = "idle"
    /\ \E h \in H, cmd \in C, out \in O :
        /\ h = "wrap" => Strip(out) # <<>>
        /\ h = "gemini" => out # <<>>
        /\ host' = [host EXCEPT ![t] = h]
        /\ command' = [command EXCEPT ![t] = cmd]
        /\ output' = [output EXCEPT ![t] = out]
    /\ pc' = [pc EXCEPT ![t] = "enabled"]
    /\ UNCHANGED <<outsideEngine, cfgFile, envVars, _config, processors, min_len,
                   min_ratio,
                   selected, compressed, result, calls, emitted>>

Call(t) == CallWith(t, Hosts, CommandSet, OutputSet)

\* if not config.get("enabled"): return output, "none", False
GetEnabled(t) ==
    /\ pc[t] = "enabled"
    /\ _config' = ConfigAfterGet(_config, cfgFile, envVars)
    /\ IF ConfigTable(_config, cfgFile, envVars).enabled
       THEN pc' = [pc EXCEPT ![t] = "min_len"] /\ UNCHANGED result
       ELSE Return(t, output[t], "none", FALSE)
    /\ UNCHANGED <<outsideEngine, cfgFile, envVars, processors, host, command,
                   output, min_len,
                   min_ratio, selected, compressed, calls, emitted>>

\* min_len = config.get("min_input_length")
GetMinLen(t) ==
    /\ pc[t] = "min_len"
    /\ _config' = ConfigAfterGet(_config, cfgFile, envVars)
    /\ min_len' = [min_len EXCEPT
                     ![t] = ConfigTable(_config, cfgFile, envVars).min_input_length]
    /\ pc' = [pc EXCEPT ![t] = "min_ratio"]
    /\ UNCHANGED <<outsideEngine, cfgFile, envVars, processors, host, command,
                   output, min_ratio,
                   selected, compressed, result, calls, emitted>>

\* min_ratio = config.get("min_compression_ratio"); the length check
GetMinRatio(t) ==
    /\ pc[t] = "min_ratio"
    /\ _config' = ConfigAfterGet(_config, cfgFile, envVars)
    /\ min_ratio' = [min_ratio EXCEPT
                       ![t] = ConfigTable(_config, cfgFile, envVars).min_compression_ratio]
    /\ IF TooShort(TextLen(output[t]), min_len[t])
       THEN Return(t, output[t], "none", FALSE)
       ELSE pc' = [pc EXCEPT ![t] = "dispatch"] /\ UNCHANGED result
    /\ UNCHANGED <<outsideEngine, cfgFile, envVars, processors, host, command,
                   output, min_len,
                   selected, compressed, calls, emitted>>

\* the for loop: the first processor that can handle the command processes it
Dispatch(t) ==
    /\ pc[t] = "dispatch"
    /\ LET i == FirstMatch(processors, command[t])
       IN IF i = 0
          THEN /\ Return(t, output[t], "none", FALSE)
               /\ UNCHANGED <<selected, compressed, calls>>
          ELSE LET r == Process(processors[i], command[t], output[t], _config.table)
               IN /\ selected' = [selected EXCEPT ![t] = i]
                  /\ calls' = [calls EXCEPT ![t] =
                        Append(@, [proc |-> processors[i].name, op |-> "process",
                                   arg |-> output[t]])]
                  /\ compressed' = [compressed EXCEPT ![t] = r.text]
                  /\ pc' = [pc EXCEPT ![t] =
                        IF r.raised THEN "raised"
                        ELSE IF i # GenericIndex(processors) THEN "clean"
                        ELSE "gate"]
                  /\ UNCHANGED result
    /\ UNCHANGED <<outsideEngine, cfgFile, envVars, _config, processors, host,
                   command, output,
                   min_len, min_ratio, emitted>>

\* if processor is not self._generic: compressed = self._generic.clean(compressed)
Clean(t) ==
    /\ pc[t] = "clean"
    /\ compressed' = [compressed EXCEPT ![t] = CleanAfter(@)]
    /\ calls' = [calls EXCEPT ![t] =
            Append(@, [proc |-> "generic", op |-> "clean", arg |-> compressed[t]])]
    /\ pc' = [pc EXCEPT ![t] = "gate"]
    /\ UNCHANGED <<outsideEngine, cfgFile, envVars, _config, processors, host,
                   command, output,
                   min_len, min_ratio, selected, result, emitted>>

\* the ratio gate on the selected processor's result
Gate(t) ==
    /\ pc[t] = "gate"
    /\ IF MeetsRatio(TextLen(output[t]), TextLen(compressed[t]), min_ratio[t])
       THEN Return(t, compressed[t], processors[selected[t]].name, TRUE)
       ELSE IF selected[t] # GenericIndex(processors)
            THEN pc' = [pc EXCEPT ![t] = "fallback"] /\ UNCHANGED result
       ELSE Return(t, PassThrough(output[t], compressed[t]),
                   processors[selected[t]].name, FALSE)
    /\ UNCHANGED <<outsideEngine, cfgFile, envVars, _config, processors, host,
                   command, output,
                   min_len, min_ratio, selected, compressed, calls, emitted>>

\* the second pass: the full generic process, then clean, then the gate
Fallback(t) ==
    /\ pc[t] = "fallback"
    /\ LET generic == processors[GenericIndex(processors)]
           arg == FallbackInput(output[t], compressed[t])
           processed == Process(generic, command[t], arg, _config.table).text
           generic_compressed == GenericClean(processed)
       IN /\ compressed' = [compressed EXCEPT ![t] = generic_compressed]
          /\ calls' = [calls EXCEPT ![t] =
                @ \o << [proc |-> "generic", op |-> "process", arg |-> arg],
                        [proc |-> "generic", op |-> "clean", arg |-> processed] >>]
          /\ IF MeetsRatio(TextLen(output[t]), TextLen(generic_compressed), min_ratio[t])
             THEN Return(t, generic_compressed, "generic", TRUE)
             ELSE Return(t, PassThrough(output[t], generic_compressed),
                         processors[selected[t]].name, FALSE)
    /\ UNCHANGED <<outsideEngine, cfgFile, envVars, _config, processors, host,
                   command, output,
                   min_len, min_ratio, selected, emitted>>

\* a direct caller (a test, a library user) takes the tuple
ReturnDirect(t) ==
    /\ pc[t] = "returned" /\ host[t] = "direct"
    /\ pc' = [pc EXCEPT ![t] = "done"]
    /\ UNCHANGED <<outsideEngine, cfgFile, envVars, _config, processors, host,
                   command, output,
                   min_len, min_ratio, selected, compressed, result, calls, emitted>>

\* how the try block around SavingsTracker(), record_saving and close ends,
\* entered only "if was_compressed": the saving is recorded; record_saving
\* swallowed an sqlite3.Error and recorded nothing; an exception reached
\* the "except Exception" of the host
TrackOutcomes(was) ==
    IF was THEN {"recorded", "record_failed", "raised"} ELSE {"none"}

\* a host whose try block has no except clause: the exception ends it
\* before it emits anything
AfterTrackingUncaught(res, outcome) ==
    IF outcome = "raised" THEN <<>> ELSE res.text

\* the text the host emits after the try block: the one compress returned
AfterTracking(res, outcome) ==
    res.text

\* wrap.py: the attempt to record the saving, then print(compressed, end="")
EmitWrap(t) ==
    /\ pc[t] = "returned" /\ host[t] = "wrap"
    /\ \E outcome \in TrackOutcomes(result[t].was) :
        /\ tracking' = [tracking EXCEPT ![t] = outcome]
        /\ emitted' = [emitted EXCEPT ![t] =
                [kind |-> "print", text |-> AfterTracking(result[t], outcome)]]
    /\ pc' = [pc EXCEPT ![t] = "done"]
    /\ UNCHANGED <<diffVars, fnVars, store, conn, kpc, lock, wk, clock,
                   cfgFile, envVars, _config, processors, host,
                   command, output,
                   min_len, min_ratio, selected, compressed, result, calls>>

\* hook_aftertool.py: {} when not compressed; else the attempt to record the
\* saving, then {"decision": "deny", "reason": text}
EmitGemini(t) ==
    /\ pc[t] = "returned" /\ host[t] = "gemini"
    /\ \E outcome \in TrackOutcomes(result[t].was) :
        /\ tracking' = [tracking EXCEPT ![t] = outcome]
        /\ emitted' = [emitted EXCEPT ![t] =
                IF result[t].was
                THEN [kind |-> "deny", text |-> AfterTracking(result[t], outcome)]
                ELSE [kind |-> "empty", text |-> <<>>]]
    /\ pc' = [pc EXCEPT ![t] = "done"]
    /\ UNCHANGED <<diffVars, fnVars, store, conn, kpc, lock, wk, clock,
                   cfgFile, envVars, _config, processors, host,
                   command, output,
                   min_len, min_ratio, selected, compressed, result, calls>>

\* the caller is finished (or died of the exception); the next call starts afresh
Reset(t) ==
    /\ pc[t] \in {"done", "raised"}
    /\ pc' = [pc EXCEPT ![t] = "idle"]
    /\ host' = [host EXCEPT ![t] = "direct"]
    /\ command' = [command EXCEPT ![t] = "foo"]
    /\ output' = [output EXCEPT ![t] = <<>>]
    /\ min_len' = [min_len EXCEPT ![t] = 0]
    /\ min_ratio' = [min_ratio EXCEPT ![t] = 0]
    /\ selected' = [selected EXCEPT ![t] = 0]
    /\ compressed' = [compressed EXCEPT ![t] = <<>>]
    /\ result' = [result EXCEPT ![t] = NoResult]
    /\ calls' = [calls EXCEPT ![t] = <<>>]
    /\ emitted' = [emitted EXCEPT ![t] = NoEmit]
    /\ UNCHANGED <<outsideEngine, cfgFile, envVars, _config, processors>>

EngineInit ==
    /\ \E src \in ConfigSources : cfgFile = src.file /\ envVars = src.env
    /\ _config = NoConfig
    /\ processors = discover_processors
    /\ pc = [t \in Threads |-> "idle"]
    /\ host = [t \in Threads |-> "direct"]
    /\ command = [t \in Threads |-> "foo"]
    /\ output = [t \in Threads |-> <<>>]
    /\ min_len = [t \in Threads |-> 0]
    /\ min_ratio = [t \in Threads |-> 0]
    /\ selected = [t \in Threads |-> 0]
    /\ compressed = [t \in Threads |-> <<>>]
    /\ result = [t \in Threads |-> NoResult]
    /\ calls = [t \in Threads |-> <<>>]
    /\ emitted = [t \in Threads |-> NoEmit]

DiffIdle ==
    /\ dLines = <<>>
    /\ dPos = 0
    /\ dCfg = [max_hunk |-> 0, max_context |-> 0]
    /\ dScan = DiffScanInit
    /\ dPc = "off"
    /\ dOut = <<>>

FnIdle ==
    /\ fArg = <<>>
    /\ fRet = <<>>
    /\ fPc = "off"

\* the threads that record savings, and the trackers they do it with
Workers == {"w1", "w2"}
Trackers == {"k1", "k2"}

\* the two tables of savings.db, when they do not exist and when empty
NoTables == [exist |-> FALSE, savings |-> <<>>, sessions |-> [s \in {} |-> 0]]
EmptyTables == [exist |-> TRUE, savings |-> <<>>, sessions |-> [s \in {} |-> 0]]

NoConn == [open |-> FALSE, tx |-> <<>>, session_id |-> "s1"]

\* no tracker exists
TrackerIdle ==
    /\ store = [file |-> "absent", found |-> "absent", faults |-> FALSE,
                tables |-> NoTables]
    /\ conn = [k \in Trackers |-> NoConn]
    /\ kpc = [k \in Trackers |-> "new"]
    /\ lock = [k \in Trackers |-> "none"]
    /\ wk = [w \in Workers |-> [pc |-> "off"]]
    /\ clock = 0
    /\ tracking = [t \in Threads |-> "none"]

Init == EngineInit /\ DiffIdle /\ FnIdle /\ TrackerIdle

\* one caller at a time: the engine is used by a single thread
Next ==
    \E t \in {"t1"} :
        \/ Call(t) \/ GetEnabled(t) \/ GetMinLen(t) \/ GetMinRatio(t)
        \/ Dispatch(t) \/ Clean(t) \/ Gate(t) \/ Fallback(t)
        \/ ReturnDirect(t) \/ EmitWrap(t) \/ EmitGemini(t) \/ Reset(t)

Spec == Init /\ [][Next]_vars

-----------------------------------------------------------------------------
(* The diff scanner on its own: _process_diff, one line per step.          *)

\* the lines a diff is made of: file marker, hunk marker, added line, removed
\* line, removed line whose text starts with "--", context line, stat summary,
\* and a line no branch matches
DiffLineSet ==
    { <<"diff --git">>, <<"@@">>, <<"+", "x">>, <<"-", "y">>, <<"-", "-", "-", "y">>,
      <<SP, "c">>, <<STAT_SUMMARY>>, <<"x">> }

\* the values of max_diff_hunk_lines and max_diff_context_lines
DiffCfgSet ==
    [max_hunk : {_DEFAULTS.max_diff_hunk_lines, 2, 1},
     max_context : {_DEFAULTS.max_diff_context_lines, 1, 0}]

EngineIdle ==
    /\ cfgFile = [state |-> "absent", vals |-> NoVals]
    /\ envVars = NoVals
    /\ _config = NoConfig
    /\ processors = discover_processors
    /\ pc = [t \in Threads |-> "idle"]
    /\ host = [t \in Threads |-> "direct"]
    /\ command = [t \in Threads |-> "foo"]
    /\ output = [t \in Threads |-> <<>>]
    /\ min_len = [t \in Threads |-> 0]
    /\ min_ratio = [t \in Threads |-> 0]
    /\ selected = [t \in Threads |-> 0]
    /\ compressed = [t \in Threads |-> <<>>]
    /\ result = [t \in Threads |-> NoResult]
    /\ calls = [t \in Threads |-> <<>>]
    /\ emitted = [t \in Threads |-> NoEmit]

\* _process_diff is entered with the lines of a non-blank output
DiffInit ==
    /\ dLines \in SeqsUpTo(DiffLineSet, MaxDiffLines) \ {<<>>}
    /\ dCfg \in DiffCfgSet
    /\ dPos = 0
    /\ dScan = DiffScanInit
    /\ dPc = "start"
    /\ dOut = <<>>

HasDiffGit(lines) == \E i \in 1..Len(lines) : IsDiffGit(lines[i])

\* no "diff --git" line: the stat-only strategy
DiffStatOnly ==
    /\ dPc = "start" /\ ~HasDiffGit(dLines)
    /\ dOut' = _process_diff_stat(dLines)
    /\ dPc' = "done"
    /\ UNCHANGED <<outsideDiff, dLines, dPos, dCfg, dScan>>

DiffEnterLoop ==
    /\ dPc = "start" /\ HasDiffGit(dLines)
    /\ dPc' = "scan"
    /\ UNCHANGED <<outsideDiff, dLines, dPos, dCfg, dScan, dOut>>

\* the loop is at a line that takes one of the given branches
DiffAt(kinds) ==
    /\ dPc = "scan" /\ dPos < Len(dLines)
    /\ LineKind(dLines[dPos + 1]) \in kinds

\* if line.startswith("diff --git")
DiffMarkerLine ==
    /\ DiffAt({"diffgit"})
    /\ dScan' = DiffStep(dScan, dLines[dPos + 1], dCfg.max_hunk, dCfg.max_context)
    /\ dPos' = dPos + 1
    /\ UNCHANGED <<outsideDiff, dLines, dCfg, dPc, dOut>>

\* elif line.startswith(("index ", "---", "+++")): continue
DiffMetaLine ==
    /\ DiffAt({"meta"})
    /\ dScan' = DiffStep(dScan, dLines[dPos + 1], dCfg.max_hunk, dCfg.max_context)
    /\ dPos' = dPos + 1
    /\ UNCHANGED <<outsideDiff, dLines, dCfg, dPc, dOut>>

\* elif line.startswith("@@")
DiffHunkLine ==
    /\ DiffAt({"hunk"})
    /\ dScan' = DiffStep(dScan, dLines[dPos + 1], dCfg.max_hunk, dCfg.max_context)
    /\ dPos' = dPos + 1
    /\ UNCHANGED <<outsideDiff, dLines, dCfg, dPc, dOut>>

\* elif line.startswith(("+", "-"))
DiffChangeLine ==
    /\ DiffAt({"change"})
    /\ dScan' = DiffStep(dScan, dLines[dPos + 1], dCfg.max_hunk, dCfg.max_context)
    /\ dPos' = dPos + 1
    /\ UNCHANGED <<outsideDiff, dLines, dCfg, dPc, dOut>>

\* elif line.startswith(" ")
DiffContextLine ==
    /\ DiffAt({"context"})
    /\ dScan' = DiffStep(dScan, dLines[dPos + 1], dCfg.max_hunk, dCfg.max_context)
    /\ dPos' = dPos + 1
    /\ UNCHANGED <<outsideDiff, dLines, dCfg, dPc, dOut>>

\* elif the line is the "N files changed" summary; else nothing
DiffOtherLine ==
    /\ DiffAt({"stat", "other"})
    /\ dScan' = DiffStep(dScan, dLines[dPos + 1], dCfg.max_hunk, dCfg.max_context)
    /\ dPos' = dPos + 1
    /\ UNCHANGED <<outsideDiff, dLines, dCfg, dPc, dOut>>

DiffReturn ==
    /\ dPc = "scan" /\ dPos = Len(dLines)
    /\ dOut' = DiffFinish(dScan, dCfg.max_hunk)
    /\ dPc' = "done"
    /\ UNCHANGED <<outsideDiff, dLines, dPos, dCfg, dScan>>

InitDiff == EngineIdle /\ DiffInit /\ FnIdle /\ TrackerIdle

NextDiff ==
    \/ DiffStatOnly \/ DiffEnterLoop
    \/ DiffMarkerLine \/ DiffMetaLine \/ DiffHunkLine
    \/ DiffChangeLine \/ DiffContextLine \/ DiffOtherLine
    \/ DiffReturn

SpecDiff == InitDiff /\ [][NextDiff]_vars

-----------------------------------------------------------------------------
(* CloudCliProcessor._compress_json_value: src/src/processors/cloud_cli.py *)
(* A JSON value is [t, s, n, cut, items]: t its type, s and n the content  *)
(* and length of a string, cut whether it was shortened, items the pairs   *)
(* [k, v] of an object in their order or the elements of a list.           *)

JStr(s, n) == [t |-> "str", s |-> s, n |-> n, cut |-> FALSE, items |-> <<>>]
JDict(items) == [t |-> "dict", s |-> "", n |-> 0, cut |-> FALSE, items |-> items]
JList(items) == [t |-> "list", s |-> "", n |-> 0, cut |-> FALSE, items |-> items]

\* _IMPORTANT_KEY_RE.match(k), on the keys used
IsImportantKey(k) == k \in {"id", "status", "error"}

RECURSIVE _compress_json_value(_, _, _)
_compress_json_value(value, depth, max_depth) ==
    LET short(v) == IF v.t = "str" /\ v.n > 200
                    THEN [v EXCEPT !.n = 200, !.cut = TRUE] ELSE v
    IN IF depth >= max_depth
       THEN IF value.t = "dict"
            THEN JStr("{... " \o ToString(Len(value.items)) \o " keys}", 12)
            ELSE IF value.t = "list"
            THEN JStr("[... " \o ToString(Len(value.items)) \o " items]", 13)
            ELSE short(value)
       ELSE IF value.t = "dict"
       THEN JDict([i \in 1..Len(value.items) |->
                [k |-> value.items[i].k,
                 v |-> IF IsImportantKey(value.items[i].k)
                       THEN _compress_json_value(value.items[i].v, depth, max_depth + 1)
                       ELSE _compress_json_value(value.items[i].v, depth + 1, max_depth)]])
       ELSE IF value.t = "list"
       THEN IF Len(value.items) <= 5
            THEN JList([i \in 1..Len(value.items) |->
                    _compress_json_value(value.items[i], depth, max_depth)])
            ELSE JList([i \in 1..3 |->
                    _compress_json_value(value.items[i], depth, max_depth)]
                 \o << JStr("... (" \o ToString(Len(value.items) - 3) \o " more items)", 18) >>)
       ELSE short(value)

\* the JSON values summarized: a leaf below a chain of objects and lists;
\* every object has a sibling branch "z", a long list has six elements
JsonSteps == {"a", "id", "status", "error", "list", "long list"}
JsonLeaves == { JStr("v", 1), JStr("w", 201) }

RECURSIVE Nest(_, _)
Nest(path, leaf) ==
    IF path = <<>> THEN leaf
    ELSE LET inner == Nest(Tail(path), leaf)
             filler == JStr("f", 1)
         IN IF Head(path) = "list" THEN JList(<<inner>>)
            ELSE IF Head(path) = "long list"
            THEN JList(<<filler, filler, filler, inner, filler, filler>>)
            ELSE JDict(<< [k |-> Head(path), v |-> inner],
                          [k |-> "z", v |-> JDict(<< [k |-> "z", v |-> filler] >>)] >>)

JsonInputs ==
    { Nest(p, leaf) : p \in SeqsUpTo(JsonSteps, MaxJsonDepth), leaf \in JsonLeaves }

\* _process_json: compressed = self._compress_json_value(data, depth=0, max_depth=4)
CompressJson ==
    /\ fPc = "json"
    /\ fRet' = _compress_json_value(fArg, 0, 4)
    /\ fPc' = "done"
    /\ UNCHANGED <<outsideFn, fArg>>

InitJson ==
    /\ EngineIdle /\ DiffIdle /\ TrackerIdle
    /\ fArg \in JsonInputs
    /\ fRet = <<>>
    /\ fPc = "json"

SpecJson == InitJson /\ [][CompressJson]_vars

-----------------------------------------------------------------------------
(* LintOutputProcessor.process: src/src/processors/lint_output.py.  A      *)
(* violation line is <<file, ":1:1: ", rule, " ", message>>, the Ruff and  *)
(* Flake8 format; the result is the list of lines that process joins.      *)

\* _parse_violation: [rule, file] of a violation line, else NoViolation
NoViolation == [rule |-> "", file |-> ""]
_parse_violation(line) ==
    IF Len(line) >= 5 /\ line[2] = ":1:1: " /\ line[3] \in {"E501", "F401"}
       /\ line[4] = SP
    THEN [rule |-> line[3], file |-> line[1]]
    ELSE NoViolation

\* re.search(r"\b(error|fatal|cannot|failed)\b", line, re.I)
HasFailureWord(line) ==
    \E i \in 1..Len(line) : line[i] \in {"error", "fatal", "cannot", "failed"}

\* the branch of the loop that a line takes: blank, ESLint file header (a
\* path with an extension and no ":<digit>"), violation, summary, ungrouped
LintKind(line) ==
    LET stripped == Strip(line)
        header == Len(stripped) = 1 /\ stripped[1] \in {"a.js"}
        summary == stripped[1] \in {"Found ", "Total ", "error:", "warning:"}
    IN IF stripped = <<>> THEN "blank"
       ELSE IF header THEN "header"
       ELSE IF _parse_violation(stripped) # NoViolation THEN "violation"
       ELSE IF summary THEN "summary"
       ELSE "ungrouped"

\* violations_by_rule[rule]
RECURSIVE ViolationsOf(_, _)
ViolationsOf(violations, rule) ==
    IF violations = <<>> THEN <<>>
    ELSE (IF _parse_violation(Head(violations)).rule = rule
          THEN <<Head(violations)>> ELSE <<>>)
         \o ViolationsOf(Tail(violations), rule)

\* sorted(violations_by_rule.items(), key=lambda x: -len(x[1])): the rules
\* by falling count, rules of equal count in the order of first occurrence
RECURSIVE RulesByCount(_, _)
RulesByCount(violations, done) ==
    LET rest == { i \in 1..Len(violations) :
                    _parse_violation(violations[i]).rule \notin done }
        count(i) == Len(ViolationsOf(violations, _parse_violation(violations[i]).rule))
    IN IF rest = {} THEN <<>>
       ELSE LET best == CHOOSE i \in rest :
                            \A j \in rest : count(j) < count(i)
                                            \/ (count(j) = count(i) /\ i <= j)
                rule == _parse_violation(violations[best]).rule
            IN <<rule>> \o RulesByCount(violations, done \cup {rule})

\* a rule grouped from group_threshold occurrences on, one too early
IsGroupedFrom(count, group_threshold) == count >= group_threshold

\* if count > group_threshold
IsGrouped(count, group_threshold) == count > group_threshold

\* the lines of the result for one rule
LintRuleBlock(violations, rule, example_count, group_threshold) ==
    LET own == ViolationsOf(violations, rule)
        count == Len(own)
        file_count == Cardinality({ _parse_violation(own[i]).file : i \in 1..count }
                                  \ {""})
    IN IF IsGrouped(count, group_threshold)
       THEN << <<"  ", rule, ": ", ToString(count), " occurrences">>
               \o (IF file_count > 1
                   THEN <<" in ", ToString(file_count), " files">> ELSE <<>>) >>
            \o [i \in 1..Len(SliceTo(own, example_count)) |-> <<"    ">> \o own[i]]
            \o (IF count > example_count
                THEN << <<"    ... (", ToString(count - example_count), " more)">> >>
                ELSE <<>>)
       ELSE [i \in 1..count |-> <<"  ">> \o own[i]]

\* LintOutputProcessor.process on the lines of a non-blank output
LintProcess(lines, example_count, group_threshold) ==
    LET RECURSIVE LinesOf(_, _)
        LinesOf(ls, kind) ==
            IF ls = <<>> THEN <<>>
            ELSE (IF LintKind(Head(ls)) = kind THEN <<Strip(Head(ls))>> ELSE <<>>)
                 \o LinesOf(Tail(ls), kind)
        violations == LinesOf(lines, "violation")
        rules == RulesByCount(violations, {})
        RECURSIVE Blocks(_)
        Blocks(rs) ==
            IF rs = <<>> THEN <<>>
            ELSE LintRuleBlock(violations, Head(rs), example_count, group_threshold)
                 \o Blocks(Tail(rs))
        important == SelectSeq(LinesOf(lines, "ungrouped"), HasFailureWord)
    IN IF violations = <<>> THEN lines
       ELSE << <<ToString(Len(violations)), " issues across ",
                 ToString(Len(rules)), " rules:">> >>
            \o Blocks(rules)
            \o LinesOf(lines, "summary")
            \o SliceTo(important, 5)

\* the lines of a lint output: three violations of two rules in two files,
\* a summary, a failure line, a plain line, a blank line, a file header
LintLineSet ==
    { <<"a.py", ":1:1: ", "E501", SP, "p">>, <<"b.py", ":1:1: ", "E501", SP, "q">>,
      <<"a.py", ":1:1: ", "F401", SP, "r">>, <<"Found ", "1", SP, "error">>,
      <<"fatal", SP, "x">>, <<"note">>, <<SP>>, <<"a.js">> }

\* a run of n failure lines, all different
FailureLines(n) == [i \in 1..n |-> <<"cannot", " open ", ToString(i)>>]

\* the values of lint_example_count and lint_group_threshold
LintCfgSet ==
    { [example_count |-> _DEFAULTS.lint_example_count,
       group_threshold |-> _DEFAULTS.lint_group_threshold],
      [example_count |-> 1, group_threshold |-> 1],
      [example_count |-> 2, group_threshold |-> 1] }

LintInputs ==
    { [lines |-> body \o FailureLines(n), cfg |-> c] :
        body \in SeqsUpTo(LintLineSet, MaxLintLines) \ {<<>>},
        n \in 0..MaxLintTail, c \in LintCfgSet }

LintApply ==
    /\ fPc = "lint"
    /\ fRet' = LintProcess(fArg.lines, fArg.cfg.example_count,
                           fArg.cfg.group_threshold)
    /\ fPc' = "done"
    /\ UNCHANGED <<outsideFn, fArg>>

InitLint ==
    /\ EngineIdle /\ DiffIdle /\ TrackerIdle
    /\ fArg \in LintInputs
    /\ fRet = <<>>
    /\ fPc = "lint"

SpecLint == InitLint /\ [][LintApply]_vars

-----------------------------------------------------------------------------
(* TestOutputProcessor._process_pytest: src/src/processors/test_output.py. *)
(* The atom "=" is a run of "=" characters and "_" a run of "_"; a         *)
(* function returns the list of lines that the code joins.                 *)

_truncate_traceback(block, max_lines) ==
    LET keep_head == max_lines \div 2
        keep_tail == max_lines - keep_head
        omitted == Len(block) - keep_head - keep_tail
    IN IF Len(block) <= max_lines THEN block
       ELSE SliceTo(block, keep_head)
            \o << <<"    ... (", ToString(omitted), " traceback lines truncated)">> >>
            \o SliceLast(block, keep_tail)

_collapse_warnings(warning_lines) ==
    LET IsType(a) == a \in {"UserWarning", "DeprecationWarning"}
        \* the class that re.search(r"(\w+Warning):\s*(.+)", line) captures,
        \* "other" for a line without one, "" for a skipped location line
        WarningType(line) ==
            IF \E i \in 1..(Len(line) - 2) : IsType(line[i]) /\ line[i + 1] = ": "
            THEN line[CHOOSE i \in 1..(Len(line) - 2) :
                        IsType(line[i]) /\ line[i + 1] = ": "]
            ELSE IF LStrip(line) # <<>> /\ Head(LStrip(line)) = "/" THEN ""
            ELSE IF line # <<>> /\ Head(line) = SP /\ LStrip(line) # <<>> THEN ""
            ELSE "other"
        \* the keys of by_type in insertion order
        RECURSIVE TypesInOrder(_, _)
        TypesInOrder(ls, seen) ==
            IF ls = <<>> THEN <<>>
            ELSE LET t == WarningType(Head(ls))
                 IN IF t = "" \/ t \in seen THEN TypesInOrder(Tail(ls), seen)
                    ELSE <<t>> \o TypesInOrder(Tail(ls), seen \cup {t})
        types == TypesInOrder(warning_lines, {})
        by_type(t) == SelectSeq(warning_lines, LAMBDA l : WarningType(l) = t)
        total == Len(SelectSeq(warning_lines, LAMBDA l : WarningType(l) # ""))
        \* sorted(..., key=-len): stable, by falling count
        RECURSIVE Sorted(_)
        Sorted(done) ==
            LET rest == { i \in 1..Len(types) : types[i] \notin done }
            IN IF rest = {} THEN <<>>
               ELSE LET best == CHOOSE i \in rest : \A j \in rest :
                                    \/ Len(by_type(types[j])) < Len(by_type(types[i]))
                                    \/ Len(by_type(types[j])) = Len(by_type(types[i])) /\ i <= j
                    IN <<types[best]>> \o Sorted(done \cup {types[best]})
        named == SelectSeq(Sorted({}), LAMBDA t : t # "other")
        RECURSIVE Parts(_)
        Parts(ts) ==
            IF ts = <<>> THEN <<>>
            ELSE (IF ts # named THEN <<", ">> ELSE <<>>)
                 \o <<Head(ts), " x", ToString(Len(by_type(Head(ts))))>> \o Parts(Tail(ts))
        \* max(by_type.items(), key=len): the first key of greatest count
        most_common == types[CHOOSE i \in 1..Len(types) : \A j \in 1..Len(types) :
                            \/ Len(by_type(types[j])) < Len(by_type(types[i]))
                            \/ Len(by_type(types[j])) = Len(by_type(types[i])) /\ i <= j]
    IN IF types = <<>> \/ named = <<>> THEN <<>>
       ELSE << <<"Warnings (", ToString(total), "): ">> \o Parts(named),
               <<"  e.g. ">> \o by_type(most_common)[1] >>

\* one turn of the loop of _process_pytest
PytestStep(st, line, max_lines) ==
    LET stripped == Strip(line)
        Has(atoms) == \E i \in 1..Len(line) : line[i] \in atoms
        FirstIs(t, atoms) == t # <<>> /\ Head(t) \in atoms
        \* ^=+.*=+$
        bar == Len(line) >= 2 /\ line[1] = "=" /\ line[Len(line)] = "="
        \* ^=+ <title>
        titled(titles) == Len(line) >= 2 /\ line[1] = "=" /\ line[2] \in titles
        flushed == st.result \o _truncate_traceback(st.failure_block, max_lines)
    IN IF FirstIs(stripped, {"collecting", "collected"})
          /\ Len(stripped) >= 2 /\ IsSpace(stripped[2]) THEN st
       ELSE IF FirstIs(stripped, {"platform", "rootdir", "configfile", "plugins", "cachedir"})
          /\ Len(stripped) >= 2 /\ (IsSpace(stripped[2]) \/ stripped[2] = ":") THEN st
       ELSE IF titled({" FAILURES "}) /\ Len(line) >= 3 /\ line[3] = "=" THEN
            [st EXCEPT !.in_failure = TRUE, !.in_warnings = FALSE,
                       !.result = Append(@, line)]
       ELSE IF titled({" warnings summary "}) /\ Len(line) >= 3 /\ line[3] = "=" THEN
            [st EXCEPT !.in_warnings = TRUE, !.in_failure = FALSE,
                       !.result = flushed, !.failure_block = <<>>]
       ELSE IF st.in_warnings THEN
            IF bar THEN
                [st EXCEPT !.in_warnings = FALSE,
                           !.result = @ \o _collapse_warnings(st.warning_lines),
                           !.warning_lines = <<>>,
                           !.summary_lines = Append(@, line)]
            ELSE IF stripped # <<>> /\ ~StartsWith(stripped, <<"--">>) THEN
                [st EXCEPT !.warning_lines = Append(@, stripped)]
            ELSE st
       ELSE IF st.in_failure THEN
            IF Len(line) >= 3 /\ line[1] = "_" /\ line[Len(line)] = "_" THEN
                [st EXCEPT !.result = Append(flushed, line), !.failure_block = <<>>]
            ELSE IF titled({" short test summary info ", " warnings summary ",
                            " 1 failed", " 1 passed", " 1 error"}) THEN
                [st EXCEPT !.in_failure = FALSE, !.failure_block = <<>>,
                           !.in_warnings = IF Has({" warnings summary "}) THEN TRUE ELSE @,
                           !.result = IF Has({" warnings summary "}) THEN flushed
                                      ELSE Append(flushed, line)]
            ELSE IF bar /\ ~Has({" FAILURES "}) THEN
                [st EXCEPT !.in_failure = FALSE, !.failure_block = <<>>,
                           !.result = Append(flushed, line)]
            ELSE [st EXCEPT !.failure_block = Append(@, line)]
       ELSE IF Has({"PASSED"}) THEN [st EXCEPT !.passed_count = @ + 1]
       ELSE IF Has({"FAILED", "ERROR"}) THEN [st EXCEPT !.result = Append(@, line)]
       ELSE IF bar /\ ~Has({" test session starts "}) THEN
            [st EXCEPT !.summary_lines = Append(@, line)]
       ELSE IF FirstIs(stripped, {"FAILED", "ERROR"})
               /\ Len(stripped) >= 2 /\ IsSpace(stripped[2]) THEN
            [st EXCEPT !.result = Append(@, line)]
       ELSE st

\* the scan without result.extend(summary_lines)
ProcessPytestNoSummary(lines, max_lines) ==
    LET RECURSIVE Scan(_, _)
        Scan(st, rest) ==
            IF rest = <<>> THEN st
            ELSE Scan(PytestStep(st, Head(rest), max_lines), Tail(rest))
        start == [result |-> <<>>, in_failure |-> FALSE, in_warnings |-> FALSE,
                  failure_block |-> <<>>, warning_lines |-> <<>>,
                  summary_lines |-> <<>>, passed_count |-> 0]
        end == Scan(start, lines)
        kept == (IF end.passed_count > 0
                 THEN << <<"[", ToString(end.passed_count), " tests passed]">> >>
                 ELSE <<>>)
                \o end.result
                \o _collapse_warnings(end.warning_lines)
                \o _truncate_traceback(end.failure_block, max_lines)
    IN IF kept # <<>> THEN kept ELSE lines

_process_pytest(lines, max_lines) ==
    LET RECURSIVE Scan(_, _)
        Scan(st, rest) ==
            IF rest = <<>> THEN st
            ELSE Scan(PytestStep(st, Head(rest), max_lines), Tail(rest))
        start == [result |-> <<>>, in_failure |-> FALSE, in_warnings |-> FALSE,
                  failure_block |-> <<>>, warning_lines |-> <<>>,
                  summary_lines |-> <<>>, passed_count |-> 0]
        end == Scan(start, lines)
        kept == (IF end.passed_count > 0
                 THEN << <<"[", ToString(end.passed_count), " tests passed]">> >>
                 ELSE <<>>)
                \o end.result
                \o _collapse_warnings(end.warning_lines)
                \o _truncate_traceback(end.failure_block, max_lines)
                \o end.summary_lines
    IN IF kept # <<>> THEN kept ELSE lines

\* lines of a pytest run
PytestLineSet ==
    { <<"=", " test session starts ", "=">>,
      <<"collected", SP, "2 items">>,
      <<"t.py::a", SP, "PASSED">>,
      <<"t.py::b", SP, "FAILED">>,
      <<"=", " FAILURES ", "=">>,
      <<"_", " b ", "_">>,
      <<"E", SP, "assert 0">>,
      <<"=", " warnings summary ", "=">>,
      <<SP, "/t.py:1: ", "UserWarning", ": ", "u">>,
      <<"=", " 1 failed", ", 1 passed in 0.1s ", "=">> }

\* lines of a warnings summary section, stripped
WarningLineSet ==
    { <<"t.py::a">>,
      <<"/t.py:1: ", "UserWarning", ": ", "u">>,
      <<"/t.py:2: ", "DeprecationWarning", ": ", "d">>,
      <<"/t.py:3: ", "DeprecationWarning", ": ", "e">>,
      <<"/", "usr/lib/w.py:9">> }

PytestInputs ==
    { [fn |-> "pytest", lines |-> ls, max_lines |-> m] :
        ls \in SeqsUpTo(PytestLineSet, MaxPytestLines) \ {<<>>},
        m \in {_DEFAULTS.max_traceback_lines, 2} }
    \cup { [fn |-> "warnings", lines |-> ls, max_lines |-> _DEFAULTS.max_traceback_lines] :
        ls \in SeqsUpTo(WarningLineSet, MaxWarningLines) \ {<<>>} }

PytestApply ==
    /\ fPc = "pytest"
    /\ fRet' = _process_pytest(fArg.lines, fArg.max_lines)
    /\ fPc' = "done"
    /\ UNCHANGED <<outsideFn, fArg>>

CollapseApply ==
    /\ fPc = "warnings"
    /\ fRet' = _collapse_warnings(fArg.lines)
    /\ fPc' = "done"
    /\ UNCHANGED <<outsideFn, fArg>>

InitPytest ==
    /\ EngineIdle /\ DiffIdle /\ TrackerIdle
    /\ fArg \in PytestInputs
    /\ fRet = <<>>
    /\ fPc = fArg.fn

SpecPytest == InitPytest /\ [][PytestApply \/ CollapseApply]_vars

-----------------------------------------------------------------------------
(* config.get on a fresh process: src/src/config.py.  The states of the    *)
(* persisted file: "absent", "ok" (a JSON object), "corrupt" (not JSON),   *)
(* "unreadable" (open fails), "not_object" (JSON, but a number, a string   *)
(* or null) and "not_utf8" (bytes that do not decode).                     *)

\* an exception that "except (json.JSONDecodeError, OSError)" does not catch:
\* config.update on a value that is no mapping, or the decoding error of read
LoadRaises(file) == file.state \in {"not_object", "not_utf8"}

ConfigFiles ==
    { [state |-> st, vals |-> NoVals] :
        st \in {"absent", "corrupt", "unreadable", "not_object", "not_utf8"} }
    \cup { [state |-> "ok", vals |-> v] :
            v \in { NoVals,
                    "min_input_length" :> 4,
                    "enabled" :> FALSE,
                    "min_compression_ratio" :> 50,
                    "max_diff_context_lines" :> -1,
                    ("min_input_length" :> 0) @@ ("enabled" :> FALSE),
                    ("min_input_length" :> 4) @@ ("min_compression_ratio" :> 50) } }

\* the TOKEN_SAVER_<KEY> variables of the environment, by key
ConfigEnvs ==
    { e \in UNION { [ks -> {"1", "abc", "0.5", "TRUE", "-1"}] :
                    ks \in SUBSET {"enabled", "min_input_length",
                                   "min_compression_ratio",
                                   "max_traceback_lines"} } : TRUE }

\* the first config.get of a process, for every key at once
ConfigLoad ==
    /\ fPc = "config"
    /\ fRet' = IF LoadRaises(fArg.file) THEN [raised |-> TRUE, table |-> <<>>]
               ELSE [raised |-> FALSE,
                     table |-> ConfigAfterGet(NoConfig, fArg.file, fArg.env).table]
    /\ fPc' = "done"
    /\ UNCHANGED <<outsideFn, fArg>>

InitConfig ==
    /\ EngineIdle /\ DiffIdle /\ TrackerIdle
    /\ fArg \in { [fn |-> "config", file |-> f, env |-> e] :
                    f \in ConfigFiles, e \in ConfigEnvs }
    /\ fRet = <<>>
    /\ fPc = "config"

SpecConfig == InitConfig /\ [][ConfigLoad]_vars

-----------------------------------------------------------------------------
(* FileContentProcessor._summarize_json_value (file_content.py) and the    *)
(* lists of both summarizers.  The summary of file_content is a text.      *)

RECURSIVE _summarize_json_value(_, _, _)
_summarize_json_value(val, depth, max_depth) ==
    LET indent == [i \in 1..depth |-> "  "]
        Inner(v) == _summarize_json_value(v, depth + 1, max_depth)
        RECURSIVE Joined(_, _)
        \* sep.join(parts)
        Joined(parts, sep) ==
            IF parts = <<>> THEN <<>>
            ELSE IF Len(parts) = 1 THEN parts[1]
            ELSE parts[1] \o sep \o Joined(Tail(parts), sep)
    IN IF val.t = "dict" THEN
            IF depth >= max_depth THEN <<"{", ToString(Len(val.items)), " keys}">>
            ELSE <<"{", NL>>
                 \o Joined([i \in 1..Len(val.items) |->
                        indent \o <<"  ", "\"", val.items[i].k, "\"", ": ">>
                        \o Inner(val.items[i].v)], <<",", NL>>)
                 \o <<NL>> \o indent \o <<"}">>
       ELSE IF val.t = "list" THEN
            IF Len(val.items) = 0 THEN <<"[]">>
            ELSE IF Len(val.items) <= 3
            THEN <<"[">> \o Joined([i \in 1..Len(val.items) |-> Inner(val.items[i])],
                                   <<", ">>) \o <<"]">>
            ELSE <<"[">> \o Joined([i \in 1..3 |-> Inner(val.items[i])], <<", ">>)
                 \o <<", ... (", ToString(Len(val.items)), " items total)]">>
       ELSE IF val.n > 100
            THEN <<"\"", val.s, "[:80]", "...\" (", ToString(val.n), " chars)">>
       ELSE <<"\"", val.s, "\"">>

\* the elements of the lists summarized: a string, a long string, an object,
\* an object in an object, a list of an object
ListElements ==
    LET obj == JDict(<< [k |-> "a", v |-> JStr("v", 1)] >>)
    IN { JStr("v", 1), JStr("w", 201), obj,
         JDict(<< [k |-> "b", v |-> obj] >>), JList(<<obj>>) }

\* lists of one kind of element, the last one possibly a string
ListInputs ==
    { [value |-> JList([i \in 1..n |-> IF i < n \/ ~str THEN e ELSE JStr("v", 1)]),
       depth |-> d] :
        n \in 0..MaxListLen, e \in ListElements, str \in BOOLEAN, d \in 0..3 }

\* _compress_json_value on a list met at some depth, max_depth=4
CloudList ==
    /\ fPc = "cloud_list"
    /\ fRet' = _compress_json_value(fArg.value, fArg.depth, 4)
    /\ fPc' = "done"
    /\ UNCHANGED <<outsideFn, fArg>>

\* _summarize_json_value on a list met at some depth, max_depth=2
FileList ==
    /\ fPc = "file_list"
    /\ fRet' = _summarize_json_value(fArg.value, fArg.depth, 2)
    /\ fPc' = "done"
    /\ UNCHANGED <<outsideFn, fArg>>

InitLists ==
    /\ EngineIdle /\ DiffIdle /\ TrackerIdle
    /\ \E a \in ListInputs, f \in {"cloud_list", "file_list"} :
        /\ fArg = [fn |-> f, value |-> a.value, depth |-> a.depth]
        /\ fPc = f
    /\ fRet = <<>>

SpecLists == InitLists /\ [][CloudList \/ FileList]_vars

-----------------------------------------------------------------------------
(* SavingsTracker._chars_to_tokens and format_stats_message:               *)
(* src/src/tracker.py.                                                     *)

\* what dict.get gives: <<v>> for the value v, None for a key that the
\* dictionary does not have
None == <<>>

\* the largest count of characters the estimate is taken of
MaxChars == 60

\* config.get(key) on a loaded table: _config.get(key, _DEFAULTS.get(key)).
\* No key of _DEFAULTS, in the source or here, is named "chars_per_token".
get(table, key) ==
    IF key \in DOMAIN table THEN <<table[key]>>
    ELSE IF key \in DOMAIN _DEFAULTS THEN <<_DEFAULTS[key]>>
    ELSE None

\* round(n / d) of Python: to the nearest integer, a tie to the even one
RoundHalfEven(n, d) ==
    LET q == n \div d
        r == n % d
    IN IF 2 * r < d THEN q
       ELSE IF 2 * r > d THEN q + 1
       ELSE IF q % 2 = 0 THEN q ELSE q + 1

\* max(1, round(n / config.get("chars_per_token"))) if n > 0 else 0; the
\* division of an int by None raises TypeError
_chars_to_tokens(n, table) ==
    IF n > 0
    THEN LET d == get(table, "chars_per_token")
         IN IF d = None THEN [raised |-> "TypeError", value |-> 0]
            ELSE [raised |-> "", value |-> IF RoundHalfEven(n, d[1]) > 1
                                           THEN RoundHalfEven(n, d[1]) ELSE 1]
    ELSE [raised |-> "", value |-> 0]

\* format_stats_message on the two dictionaries that get_lifetime_stats and
\* get_session_stats return; numbers with one decimal are built from tenths
format_stats_message(lifetime, session, table) ==
    LET Tenths(t) == <<ToString(t \div 10), ".", ToString(t % 10)>>
        _format_tokens(n) ==
            IF n < 1000 THEN <<ToString(n), " tokens">>
            ELSE IF n < 1000000
                 THEN Tenths(RoundHalfEven(n * 10, 1000)) \o <<"k tokens">>
            ELSE Tenths(RoundHalfEven(n * 10, 1000000)) \o <<"M tokens">>
        Ratio(st) == IF st.original > 0
                     THEN RoundHalfEven((st.original - st.compressed) * 1000, st.original)
                     ELSE 0
        Saved(st) == _chars_to_tokens(st.original - st.compressed, table)
        Part(label, st) ==
            <<label, ToString(st.commands), " cmds, ">>
            \o _format_tokens(Saved(st).value)
            \o <<" saved (">> \o Tenths(Ratio(st)) \o <<"%)">>
        parts == <<"[token-saver]">>
                 \o (IF lifetime.commands > 0
                     THEN <<" | ">> \o Part("Lifetime: ", lifetime) ELSE <<>>)
                 \o (IF session.commands > 0
                     THEN <<" | ">> \o Part("Session: ", session) ELSE <<>>)
                 \o (IF lifetime.commands = 0
                     THEN <<" | ", "Ready. No compressions recorded yet.">> ELSE <<>>)
    IN IF lifetime.commands > 0 /\ Saved(lifetime).raised # ""
       THEN [raised |-> Saved(lifetime).raised, value |-> <<>>]
       ELSE IF session.commands > 0 /\ Saved(session).raised # ""
       THEN [raised |-> Saved(session).raised, value |-> <<>>]
       ELSE [raised |-> "", value |-> parts]

\* the table of a process with no configuration file and no TOKEN_SAVER_
\* variable, and the table when config.json sets "chars_per_token" to 4
\* (config.update takes every key of the file)
TokenTables ==
    { _load_config([state |-> "absent", vals |-> NoVals], NoVals),
      [k \in ConfigKeys \cup {"chars_per_token"} |->
          IF k = "chars_per_token" THEN 4 ELSE _DEFAULTS[k]] }

\* what the stats queries return; the session is part of the lifetime
StatsRows ==
    { [commands |-> 0, original |-> 0, compressed |-> 0],
      [commands |-> 1, original |-> 8, compressed |-> 4],
      [commands |-> 1, original |-> 8, compressed |-> 8],
      [commands |-> 1, original |-> 400, compressed |-> 0],
      [commands |-> 2, original |-> 408, compressed |-> 104],
      [commands |-> 3, original |-> 8408, compressed |-> 104] }

TokenInputs ==
    { [fn |-> "tokens", table |-> t, n |-> n] :
        t \in TokenTables, n \in (0..MaxChars) \cup {400} }
    \cup { [fn |-> "stats", table |-> t, lifetime |-> l, session |-> x] :
            t \in TokenTables,
            l \in StatsRows,
            x \in { r \in StatsRows : r.commands <= 1 } }

CharsToTokens ==
    /\ fPc = "tokens"
    /\ fRet' = _chars_to_tokens(fArg.n, fArg.table)
    /\ fPc' = "done"
    /\ UNCHANGED <<outsideFn, fArg>>

FormatStats ==
    /\ fPc = "stats"
    /\ fRet' = format_stats_message(fArg.lifetime, fArg.session, fArg.table)
    /\ fPc' = "done"
    /\ UNCHANGED <<outsideFn, fArg>>

InitTokens ==
    /\ EngineIdle /\ DiffIdle /\ TrackerIdle
    /\ fArg \in TokenInputs
    /\ fRet = <<>>
    /\ fPc = fArg.fn

SpecTokens == InitTokens /\ [][CharsToTokens \/ FormatStats]_vars

-----------------------------------------------------------------------------
(* The life of config._config in one process: get, reload, and changes of  *)
(* the file and the environment in between. src/src/config.py.             *)

\* how often the process calls reload, and how often its surroundings change
MaxReloads == 2
MaxChanges == 2

ReloadFiles ==
    { [state |-> "absent", vals |-> NoVals],
      [state |-> "ok", vals |-> ("min_input_length" :> 4)],
      [state |-> "not_object", vals |-> NoVals] }

ReloadEnvs ==
    { NoVals, "min_input_length" :> "1", "min_compression_ratio" :> "0.5" }

restOfEngine ==
    <<processors, pc, host, command, output, min_len, min_ratio, selected,
      compressed, result, calls, emitted>>

\* config.get, for every key at once. fRet keeps the log of the process: the
\* number of loads since the start or the last reload, the file and the
\* environment the last load read, and what the last get returned
CfgGet ==
    /\ fPc = "life"
    /\ IF ~_config.loaded /\ LoadRaises(cfgFile)
       THEN /\ fRet' = [fRet EXCEPT !.got = <<>>, !.raised = TRUE]
            /\ UNCHANGED _config
       ELSE /\ _config' = ConfigAfterGet(_config, cfgFile, envVars)
            /\ fRet' = [fRet EXCEPT
                          !.got = <<ConfigTable(_config, cfgFile, envVars)>>,
                          !.raised = FALSE,
                          !.loads = IF _config.loaded THEN @ ELSE @ + 1,
                          !.read = IF _config.loaded THEN @
                                   ELSE <<[file |-> cfgFile, env |-> envVars]>>]
    /\ UNCHANGED <<diffVars, trackerVars, fArg, fPc, cfgFile, envVars, restOfEngine>>

\* config.reload
CfgReload ==
    /\ fPc = "life" /\ fRet.reloads < MaxReloads
    /\ _config' = NoConfig
    /\ fRet' = [fRet EXCEPT !.reloads = @ + 1, !.loads = 0,
                            !.got = <<>>, !.raised = FALSE]
    /\ UNCHANGED <<diffVars, trackerVars, fArg, fPc, cfgFile, envVars, restOfEngine>>

\* a TOKEN_SAVER_ variable is set or unset
ChangeEnv ==
    /\ fPc = "life" /\ fRet.changes < MaxChanges
    /\ envVars' \in ReloadEnvs \ {envVars}
    /\ fRet' = [fRet EXCEPT !.changes = @ + 1]
    /\ UNCHANGED <<diffVars, trackerVars, fArg, fPc, cfgFile, _config, restOfEngine>>

\* config.json is written, replaced or removed
ChangeFile ==
    /\ fPc = "life" /\ fRet.changes < MaxChanges
    /\ cfgFile' \in ReloadFiles \ {cfgFile}
    /\ fRet' = [fRet EXCEPT !.changes = @ + 1]
    /\ UNCHANGED <<diffVars, trackerVars, fArg, fPc, envVars, _config, restOfEngine>>

InitReload ==
    /\ EngineIdle!3 /\ EngineIdle!4 /\ EngineIdle!5 /\ EngineIdle!6
    /\ EngineIdle!7 /\ EngineIdle!8 /\ EngineIdle!9 /\ EngineIdle!10
    /\ EngineIdle!11 /\ EngineIdle!12 /\ EngineIdle!13 /\ EngineIdle!14
    /\ EngineIdle!15
    /\ cfgFile \in ReloadFiles
    /\ envVars \in ReloadEnvs
    /\ DiffIdle /\ TrackerIdle
    /\ fArg = [fn |-> "life"]
    /\ fRet = [loads |-> 0, reloads |-> 0, changes |-> 0, got |-> <<>>,
               raised |-> FALSE, read |-> <<>>]
    /\ fPc = "life"

SpecReload == InitReload /\ [][CfgGet \/ CfgReload \/ ChangeEnv \/ ChangeFile]_vars

-----------------------------------------------------------------------------
(* The line scan of _process_pytest, one line per step:                    *)
(* src/src/processors/test_output.py.                                      *)

\* the locals of _process_pytest before the loop
PytestStart ==
    [result |-> <<>>, in_failure |-> FALSE, in_warnings |-> FALSE,
     failure_block |-> <<>>, warning_lines |-> <<>>,
     summary_lines |-> <<>>, passed_count |-> 0]

\* an end of the scan that leaves an unclosed failure block behind
PytestFinishNoBlock(st, lines, max_lines) ==
    LET kept == (IF st.passed_count > 0
                 THEN << <<"[", ToString(st.passed_count), " tests passed]">> >>
                 ELSE <<>>)
                \o st.result
                \o _collapse_warnings(st.warning_lines)
                \o st.summary_lines
    IN IF kept # <<>> THEN kept ELSE lines

\* after the loop: the unclosed warnings section, the unclosed failure
\* block, the count of passed tests in front, the summary lines at the end
PytestFinish(st, lines, max_lines) ==
    LET kept == (IF st.passed_count > 0
                 THEN << <<"[", ToString(st.passed_count), " tests passed]">> >>
                 ELSE <<>>)
                \o st.result
                \o _collapse_warnings(st.warning_lines)
                \o _truncate_traceback(st.failure_block, max_lines)
                \o st.summary_lines
    IN IF kept # <<>> THEN kept ELSE lines

\* one iteration of "for line in lines"
PytestLine ==
    /\ fPc = "scan" /\ fRet.pos < Len(fArg.lines)
    /\ fRet' = [fRet EXCEPT
                  !.st = PytestStep(fRet.st, fArg.lines[fRet.pos + 1], fArg.max_lines),
                  !.pos = @ + 1]
    /\ UNCHANGED <<outsideFn, fArg, fPc>>

\* the loop is over
PytestReturn ==
    /\ fPc = "scan" /\ fRet.pos = Len(fArg.lines)
    /\ fRet' = [fRet EXCEPT !.out = PytestFinish(fRet.st, fArg.lines, fArg.max_lines)]
    /\ fPc' = "done"
    /\ UNCHANGED <<outsideFn, fArg>>

InitScan ==
    /\ EngineIdle /\ DiffIdle /\ TrackerIdle
    /\ fArg \in { [fn |-> "scan", lines |-> ls, max_lines |-> m] :
                    ls \in SeqsUpTo(PytestLineSet, MaxPytestLines) \ {<<>>},
                    m \in {_DEFAULTS.max_traceback_lines, 2} }
    /\ fRet = [st |-> PytestStart, pos |-> 0, out |-> <<>>]
    /\ fPc = "scan"

SpecScan == InitScan /\ [][PytestLine \/ PytestReturn]_vars

-----------------------------------------------------------------------------
(* SavingsTracker: src/src/tracker.py. Threads record savings through      *)
(* trackers on one savings.db; every tracker has its own connection.       *)

\* record_saving calls per thread, the days the clock runs, and prune_days
MaxRecords == 2
MaxTime == 2
PruneAge == 1

\* original_size and compressed_size of the savings a thread records
Sizes ==
    [w \in Workers |-> IF w = "w1" THEN [original |-> 10, compressed |-> 4]
                       ELSE [original |-> 20, compressed |-> 5]]

\* what a connection reads: its own pending writes, else the committed tables
Base(k) == IF conn[k].tx # <<>> THEN conn[k].tx[1] ELSE store.tables

\* another connection holds the write lock of the database
Busy(k) == \E o \in Trackers \ {k} : conn[o].tx # <<>>

\* INSERT INTO savings (timestamp, session_id, ..., original_size, compressed_size)
InsertSaving(tables, sid, now, size) ==
    [tables EXCEPT !.savings =
        Append(@, [session_id |-> sid, timestamp |-> now,
                   original_size |-> size.original,
                   compressed_size |-> size.compressed])]

\* an upsert that overwrites the row of the session
UpsertSessionReplace(tables, sid, now, size) ==
    [tables EXCEPT !.sessions =
        (sid :> [last_seen |-> now, total_original |-> size.original,
                 total_compressed |-> size.compressed, command_count |-> 1]) @@ @]

\* INSERT INTO sessions ... VALUES (..., 1) ON CONFLICT(session_id) DO UPDATE
\* SET last_seen = ?, total_original = total_original + ?, ...
UpsertSession(tables, sid, now, size) ==
    [tables EXCEPT !.sessions =
        IF sid \in DOMAIN @
        THEN [@ EXCEPT ![sid] =
                [last_seen |-> now,
                 total_original |-> @.total_original + size.original,
                 total_compressed |-> @.total_compressed + size.compressed,
                 command_count |-> @.command_count + 1]]
        ELSE (sid :> [last_seen |-> now, total_original |-> size.original,
                      total_compressed |-> size.compressed, command_count |-> 1]) @@ @]

\* DELETE FROM savings WHERE timestamp < cutoff
PruneSavings(tables, cutoff) ==
    [tables EXCEPT !.savings =
        SelectSeq(@, LAMBDA r : r.timestamp >= cutoff)]

\* DELETE FROM sessions WHERE last_seen < cutoff
PruneSessions(tables, cutoff) ==
    [tables EXCEPT !.sessions =
        [sid \in { x \in DOMAIN @ : @[x].last_seen >= cutoff } |-> @[sid]]]

\* _open_connection: connect and PRAGMA journal_mode=WAL. A file that is no
\* database, or whose first page is malformed, makes the PRAGMA raise
\* DatabaseError: the file is removed and a new one made. A file whose first
\* page is sound and whose other pages are not passes.
TrOpen(k) ==
    /\ kpc[k] = "new"
    /\ \E w \in Workers : wk[w].pc # "off" /\ wk[w].tracker = k
    /\ store' = IF store.file \in {"absent", "garbage"}
                THEN [store EXCEPT !.file = "valid", !.tables = NoTables]
                ELSE store
    /\ conn' = [conn EXCEPT ![k].open = TRUE]
    /\ kpc' = [kpc EXCEPT ![k] = "opened"]
    /\ UNCHANGED <<engineVars, diffVars, fnVars, lock, wk, clock, tracking>>

\* _init_db: CREATE TABLE IF NOT EXISTS, under the lock. With a file that
\* passed _open_connection the script does not raise.
TrInitDb(k) ==
    /\ kpc[k] = "opened" /\ lock[k] = "none"
    /\ ~Busy(k)
    /\ store' = IF store.file = "valid" /\ ~store.tables.exist
                THEN [store EXCEPT !.tables = EmptyTables]
                ELSE store
    /\ kpc' = [kpc EXCEPT ![k] = "inited"]
    /\ UNCHANGED <<engineVars, diffVars, fnVars, conn, lock, wk, clock, tracking>>

\* _maybe_prune: both DELETEs and the commit, under the lock
TrPrune(k) ==
    /\ kpc[k] = "inited" /\ lock[k] = "none"
    /\ store.file = "valid" /\ ~Busy(k)
    /\ store' = [store EXCEPT !.tables =
                    PruneSessions(PruneSavings(Base(k), clock - PruneAge),
                                  clock - PruneAge)]
    /\ conn' = [conn EXCEPT ![k].tx = <<>>]
    /\ kpc' = [kpc EXCEPT ![k] = "ready"]
    /\ UNCHANGED <<engineVars, diffVars, fnVars, lock, wk, clock, tracking>>

\* _maybe_prune when a statement raises sqlite3.Error: "except: pass", with
\* no rollback. The error comes with the first DELETE (a malformed file) or
\* after it (a failing disk), and then the deleted savings stay pending
TrPruneFails(k) ==
    /\ kpc[k] = "inited" /\ lock[k] = "none"
    /\ \/ /\ store.file = "damaged"
          /\ UNCHANGED conn
       \/ /\ store.file = "valid" /\ store.faults /\ ~Busy(k)
          /\ conn' = [conn EXCEPT ![k].tx =
                        <<PruneSavings(Base(k), clock - PruneAge)>>]
    /\ kpc' = [kpc EXCEPT ![k] = "ready"]
    /\ UNCHANGED <<engineVars, diffVars, fnVars, store, lock, wk, clock, tracking>>

\* record_saving: now = time.time(), before the lock is taken
RecStart(w) ==
    /\ wk[w].pc = "idle" /\ wk[w].left > 0
    /\ kpc[wk[w].tracker] = "ready"
    /\ wk' = [wk EXCEPT ![w].pc = "want", ![w].now = clock]
    /\ UNCHANGED <<engineVars, diffVars, fnVars, store, conn, kpc, lock, clock, tracking>>

\* with self._lock
RecLock(w) ==
    /\ wk[w].pc = "want" /\ lock[wk[w].tracker] = "none"
    /\ lock' = [lock EXCEPT ![wk[w].tracker] = w]
    /\ wk' = [wk EXCEPT ![w].pc = "insert"]
    /\ UNCHANGED <<engineVars, diffVars, fnVars, store, conn, kpc, clock, tracking>>

\* the three statements of the try block, one per step: the INSERT, the
\* upsert, the commit
RecWrite(w) ==
    LET k == wk[w].tracker
        sid == conn[k].session_id
    IN /\ store.file = "valid" /\ ~Busy(k)
       /\ \/ /\ wk[w].pc = "insert"
             /\ conn' = [conn EXCEPT ![k].tx =
                            <<InsertSaving(Base(k), sid, wk[w].now, Sizes[w])>>]
             /\ wk' = [wk EXCEPT ![w].pc = "upsert"]
             /\ UNCHANGED store
          \/ /\ wk[w].pc = "upsert"
             /\ conn' = [conn EXCEPT ![k].tx =
                            <<UpsertSession(Base(k), sid, wk[w].now, Sizes[w])>>]
             /\ wk' = [wk EXCEPT ![w].pc = "commit"]
             /\ UNCHANGED store
          \/ /\ wk[w].pc = "commit"
             /\ store' = [store EXCEPT !.tables = Base(k)]
             /\ conn' = [conn EXCEPT ![k].tx = <<>>]
             /\ wk' = [wk EXCEPT ![w].pc = "unlock"]
       /\ UNCHANGED <<engineVars, diffVars, fnVars, kpc, lock, clock, tracking>>

\* one of the three statements raises sqlite3.Error: on a malformed file, or
\* on a failing disk
RecFails(w) ==
    /\ wk[w].pc \in {"insert", "upsert", "commit"}
    /\ store.file = "damaged" \/ store.faults
    /\ wk' = [wk EXCEPT ![w].pc = "rollback", ![w].failed = @ + 1]
    /\ UNCHANGED <<engineVars, diffVars, fnVars, store, conn, kpc, lock, clock, tracking>>

\* except sqlite3.Error: self.conn.rollback()
RecRollback(w) ==
    /\ wk[w].pc = "rollback"
    /\ conn' = [conn EXCEPT ![wk[w].tracker].tx = <<>>]
    /\ wk' = [wk EXCEPT ![w].pc = "unlock"]
    /\ UNCHANGED <<engineVars, diffVars, fnVars, store, kpc, lock, clock, tracking>>

\* the end of the with block; record_saving returns
RecUnlock(w) ==
    /\ wk[w].pc = "unlock"
    /\ lock' = [lock EXCEPT ![wk[w].tracker] = "none"]
    /\ wk' = [wk EXCEPT ![w].pc = "idle", ![w].left = @ - 1]
    /\ UNCHANGED <<engineVars, diffVars, fnVars, store, conn, kpc, clock, tracking>>

\* get_session_stats()["commands"], after a record_saving: the count of the
\* session's row, 0 without a row. On a malformed file the SELECT raises
\* DatabaseError or, when the page of the table is sound, finds no row
StatsRead(w) ==
    LET k == wk[w].tracker
        sid == conn[k].session_id
    IN /\ wk[w].pc = "idle" /\ wk[w].left < MaxRecords /\ wk[w].seen = <<>>
       /\ lock[k] = "none"
       /\ \E v \in (IF store.file = "damaged" THEN {"raised", "0"}
                    ELSE IF sid \in DOMAIN Base(k).sessions
                         THEN {ToString(Base(k).sessions[sid].command_count)}
                         ELSE {"0"}) :
            wk' = [wk EXCEPT ![w].seen = <<v>>]
       /\ UNCHANGED <<engineVars, diffVars, fnVars, store, conn, kpc, lock, clock, tracking>>

\* a day passes
Tick ==
    /\ clock < MaxTime
    /\ \E w \in Workers : wk[w].pc # "off"
    /\ clock' = clock + 1
    /\ UNCHANGED <<engineVars, diffVars, fnVars, store, conn, kpc, lock, wk, tracking>>

\* savings.db as the first tracker finds it; two threads, on one tracker or
\* on one each; the second tracker with the session of the first or its own
InitTracker ==
    /\ EngineIdle /\ DiffIdle /\ FnIdle
    /\ \E f \in {"absent", "valid", "garbage", "damaged"}, d \in BOOLEAN :
         store = [file |-> f, found |-> f, faults |-> d,
                  tables |-> IF f \in {"valid", "damaged"} THEN EmptyTables
                             ELSE NoTables]
    /\ \E sid \in {"s1", "s2"} :
         conn = [k \in Trackers |->
                    IF k = "k1" THEN NoConn ELSE [NoConn EXCEPT !.session_id = sid]]
    /\ kpc = [k \in Trackers |-> "new"]
    /\ lock = [k \in Trackers |-> "none"]
    /\ \E k \in Trackers :
         wk = [w \in Workers |->
                [pc |-> "idle", tracker |-> IF w = "w1" THEN "k1" ELSE k,
                 left |-> MaxRecords, now |-> 0, failed |-> 0, seen |-> <<>>]]
    /\ clock = 0
    /\ tracking = [t \in Threads |-> "none"]

NextTracker ==
    \/ \E k \in Trackers : TrOpen(k) \/ TrInitDb(k) \/ TrPrune(k) \/ TrPruneFails(k)
    \/ \E w \in Workers :
         \/ RecStart(w) \/ RecLock(w) \/ RecWrite(w) \/ RecFails(w)
         \/ RecRollback(w) \/ RecUnlock(w) \/ StatsRead(w)
    \/ Tick

SpecTracker == InitTracker /\ [][NextTracker]_vars

-----------------------------------------------------------------------------
(* Several callers at once on one engine: every caller runs compress step  *)
(* by step, all share config._config and the registry.                     *)

ConcCommands == {"git stash", "foo"}
ConcOutputs == { <<ESC, "x", "x", "x", "x">>, <<"x", NL, "x">> }

ConcCall(t) == CallWith(t, {"direct"}, ConcCommands, ConcOutputs)

\* config.get is not atomic: a caller that found config._config empty stores
\* the table it loaded, possibly after another caller has stored its own
StoreLoaded(t) ==
    /\ pc[t] \in {"enabled", "min_len", "min_ratio"}
    /\ _config' = [loaded |-> TRUE, table |-> _load_config(cfgFile, envVars)]
    /\ UNCHANGED <<outsideEngine, cfgFile, envVars, processors, pc, host, command,
                   output, min_len, min_ratio, selected, compressed, result,
                   calls, emitted>>

NextConc ==
    \E t \in Threads :
        \/ ConcCall(t) \/ StoreLoaded(t)
        \/ GetEnabled(t) \/ GetMinLen(t) \/ GetMinRatio(t)
        \/ Dispatch(t) \/ Clean(t) \/ Gate(t) \/ Fallback(t)
        \/ ReturnDirect(t) \/ Reset(t)

SpecConc == Init /\ [][NextConc]_vars

\* compress as one sequential computation on a loaded configuration table
compress(cmd, out, cfg, ps) ==
    IF ~cfg.enabled \/ TextLen(out) < cfg.min_input_length
    THEN [text |-> out, name |-> "none", was |-> FALSE]
    ELSE LET i == FirstMatch(ps, cmd)
             first == GenericClean(Process(ps[i], cmd, out, cfg).text)
             candidate == IF i # Len(ps) THEN first
                          ELSE Process(ps[i], cmd, out, cfg).text
             second == GenericClean(Process(ps[Len(ps)], cmd, out, cfg).text)
             meets(c) == IF TextLen(out) > 0
                         THEN (TextLen(out) - TextLen(c)) * 100
                              >= cfg.min_compression_ratio * TextLen(out)
                         ELSE 0 >= cfg.min_compression_ratio
         IN IF i = 0 THEN [text |-> out, name |-> "none", was |-> FALSE]
            ELSE IF meets(candidate)
                 THEN [text |-> candidate, name |-> ps[i].name, was |-> TRUE]
            ELSE IF i # Len(ps) /\ meets(second)
                 THEN [text |-> second, name |-> "generic", was |-> TRUE]
            ELSE [text |-> out, name |-> ps[i].name, was |-> FALSE]

-----------------------------------------------------------------------------
(* compress on the output of env and printenv: src/src/engine.py,          *)
(* src/src/processors/env.py.                                              *)

\* fifty characters of a long value
Chunk == "01234567890123456789012345678901234567890123456789"

\* two values of one secret
EnvSecrets == {"sk-1", "sk-22222"}

\* names that _SENSITIVE_PATTERNS matches
SensitiveNames == { <<"API_", "KEY">>, <<"api_", "key">>, <<"SSH_", "AUTH", "_SOCK">> }

EnvExtras ==
    { <<>>,
      << <<>> >>,
      << <<"no assignment">> >>,
      << <<"PATH", "=", Chunk, ":", Chunk, ":", Chunk, ":", Chunk, ":", Chunk>> >>,
      << <<"LONG", "=", Chunk, Chunk, Chunk, Chunk, Chunk>> >> }

\* the output of env: the sensitive variable among a application variables,
\* b system variables and one more line
EnvOutput(arg, secret) ==
    JoinLines([i \in 1..arg.a |-> <<"APP_VAR", "=", "value_0123456789">>]
              \o << arg.name \o <<"=", secret>> >>
              \o [i \in 1..arg.b |-> <<"TERM", "=", "xterm-256color">>]
              \o arg.extra)

EnvInputs ==
    { [fn |-> "env", cmd |-> c, a |-> a, b |-> b, name |-> n, extra |-> x,
       cfg |-> _load_config(src.file, src.env)] :
        c \in {"env", "printenv"}, a \in 0..MaxEnvVars, b \in 0..MaxEnvVars,
        n \in SensitiveNames, x \in EnvExtras,
        src \in { q \in ConfigSources :
                    /\ DOMAIN q.file.vals \subseteq {"min_input_length"}
                    /\ "enabled" \notin DOMAIN q.env } }

\* compress on the same output with either value of the secret
EnvCompress ==
    /\ fPc = "env"
    /\ fRet' = [s \in EnvSecrets |->
                    compress(fArg.cmd, EnvOutput(fArg, s), fArg.cfg, discover_processors)]
    /\ fPc' = "done"
    /\ UNCHANGED <<outsideFn, fArg>>

InitEnv ==
    /\ EngineIdle /\ DiffIdle /\ TrackerIdle
    /\ fArg \in EnvInputs
    /\ fRet = <<>>
    /\ fPc = "env"

SpecEnv == InitEnv /\ [][EnvCompress]_vars

-----------------------------------------------------------------------------
(* Properties of compress: src/src/engine.py.                              *)

\* the configuration compress runs on: defaults, file and environment merged
LoadedConfig == _load_config(cfgFile, envVars)

\* compress has returned to thread t; result[t] is the tuple it returned
Finished(t) == pc[t] \in {"returned", "done"}

\* the processors of the registry that accept cmd, generic apart
Specialized(cmd) ==
    { p \in ProcessorClasses : p.name # "generic" /\ can_handle(p, cmd) }

\* (len(out) - len(text)) / len(out) >= ratio, ratio in percent
GainAtLeast(out, text, ratio) ==
    (TextLen(out) - TextLen(text)) * 100 >= ratio * TextLen(out)

\* C1: when the engine is disabled or the output is shorter than
\* min_input_length, compress returns (output, "none", False) and no
\* processor is invoked at all.
C1_PassThroughGuards ==
    \A t \in Threads :
        ( /\ Finished(t)
          /\ \/ ~LoadedConfig.enabled
             \/ TextLen(output[t]) < LoadedConfig.min_input_length )
        => /\ result[t] = [text |-> output[t], name |-> "none", was |-> FALSE]
           /\ calls[t] = <<>>

\* a short output of a command the git processor accepts has been returned
C1_Witness ==
    \E t \in Threads :
        /\ pc[t] = "returned"
        /\ command[t] = "git diff"
        /\ LoadedConfig.enabled
        /\ output[t] # <<>>
        /\ TextLen(output[t]) < LoadedConfig.min_input_length
        /\ result[t].name = "none"

\* C2, as stated: for every configured min_compression_ratio and every
\* output at least min_input_length long, the third element of the result
\* is true exactly when the gain of the returned text reaches the ratio.
C2_RatioGateAnyRatio ==
    \A t \in Threads :
        ( /\ Finished(t)
          /\ TextLen(output[t]) > 0
          /\ TextLen(output[t]) >= LoadedConfig.min_input_length )
        => ( result[t].was
             <=> GainAtLeast(output[t], result[t].text,
                             LoadedConfig.min_compression_ratio) )

\* C2: for every configured min_compression_ratio above zero and every
\* output at least min_input_length long, the third element of the result
\* is true exactly when the gain of the returned text reaches the ratio,
\* the gain of an empty output being zero.
C2_RatioGate ==
    \A t \in Threads :
        ( /\ Finished(t)
          /\ LoadedConfig.min_compression_ratio > 0
          /\ TextLen(output[t]) >= LoadedConfig.min_input_length )
        => ( result[t].was
             <=> IF TextLen(output[t]) > 0
                 THEN GainAtLeast(output[t], result[t].text,
                                  LoadedConfig.min_compression_ratio)
                 ELSE FALSE )

\* a result compressed under a ratio of one half, and shorter than the output
C2_Witness ==
    \E t \in Threads :
        /\ pc[t] = "returned"
        /\ LoadedConfig.min_compression_ratio = 50
        /\ result[t].was
        /\ calls[t] # <<>>
        /\ TextLen(result[t].text) * 2 <= TextLen(output[t])

\* C3: the only processor whose process runs first is the accepting one of
\* smallest priority; whatever runs after it is the generic processor; and
\* a result under the name "generic" for a command a specialized processor
\* accepts means the specialized result missed the ratio.
C3_FirstMatchWins ==
    \A t \in Threads :
        calls[t] # <<>> =>
            /\ calls[t][1].op = "process"
            /\ \E p \in ProcessorClasses :
                /\ p.name = calls[t][1].proc
                /\ can_handle(p, command[t])
                /\ \A q \in ProcessorClasses :
                        can_handle(q, command[t]) => p.priority <= q.priority
            /\ \A i \in 2..Len(calls[t]) : calls[t][i].proc = "generic"
            /\ ( /\ Finished(t)
                 /\ result[t].name = "generic"
                 /\ Specialized(command[t]) # {} )
               => /\ Len(calls[t]) = 4
                  /\ ~GainAtLeast(output[t], GenericClean(calls[t][2].arg),
                                  LoadedConfig.min_compression_ratio)

\* a command that git, search and generic accept, compressed under "git"
C3_Witness ==
    \E t \in Threads :
        /\ pc[t] = "returned"
        /\ Cardinality(Specialized(command[t])) = 2
        /\ result[t] = [text |-> result[t].text, name |-> "git", was |-> TRUE]
        /\ Len(calls[t]) = 2

\* C4: when a specialized processor was selected and its cleaned result
\* misses the ratio, the generic processor's full process runs on the
\* original output, its result is cleaned, and compress returns
\* (that text, "generic", True) if its gain reaches the ratio, else the
\* original output with False; when generic itself was selected there is no
\* second pass.
C4_TwoPassFallback ==
    \A t \in Threads :
        (Finished(t) /\ calls[t] # <<>>) =>
            LET ratio == LoadedConfig.min_compression_ratio
                generic == processors[Len(processors)]
                second == Process(generic, command[t], output[t], LoadedConfig).text
            IN IF calls[t][1].proc = "generic"
               THEN Len(calls[t]) = 1
               ELSE ~MeetsRatio(TextLen(output[t]),
                                TextLen(GenericClean(calls[t][2].arg)), ratio)
                    => /\ Len(calls[t]) = 4
                       /\ calls[t][3] = [proc |-> "generic", op |-> "process",
                                         arg |-> output[t]]
                       /\ calls[t][4] = [proc |-> "generic", op |-> "clean",
                                         arg |-> second]
                       /\ IF MeetsRatio(TextLen(output[t]),
                                        TextLen(GenericClean(second)), ratio)
                          THEN result[t] = [text |-> GenericClean(second),
                                            name |-> "generic", was |-> TRUE]
                          ELSE /\ result[t].text = output[t]
                               /\ ~result[t].was

\* the git processor's result missed the ratio and the second pass met it
C4_Witness ==
    \E t \in Threads :
        /\ pc[t] = "returned"
        /\ calls[t] # <<>>
        /\ calls[t][1].proc = "git"
        /\ result[t].name = "generic"
        /\ result[t].was
        /\ result[t].text # output[t]

\* C5: whenever the third element of the result is false the text is the
\* input itself; wrap.py then prints the original output and the Gemini
\* hook emits the empty object.
C5_UntouchedPassThrough ==
    \A t \in Threads :
        (Finished(t) /\ ~result[t].was) =>
            /\ result[t].text = output[t]
            /\ (pc[t] = "done" /\ host[t] = "wrap")
               => emitted[t] = [kind |-> "print", text |-> output[t]]
            /\ (pc[t] = "done" /\ host[t] = "gemini")
               => emitted[t] = [kind |-> "empty", text |-> <<>>]

\* wrap.py has printed the output after both passes changed the text in vain
C5_Witness ==
    \E t \in Threads :
        /\ pc[t] = "done"
        /\ host[t] = "wrap"
        /\ ~result[t].was
        /\ Len(calls[t]) = 4
        /\ compressed[t] # output[t]
        /\ emitted[t].kind = "print"

\* C6: a compressed result under a specialized processor's name is the
\* clean of what that processor's process returned, and holds no ANSI
\* escape sequence.
C6_BaselineHygiene ==
    \A t \in Threads :
        (Finished(t) /\ result[t].was /\ result[t].name # "generic") =>
            /\ Len(calls[t]) = 2
            /\ calls[t][1] = [proc |-> result[t].name, op |-> "process",
                              arg |-> output[t]]
            /\ calls[t][2].op = "clean"
            /\ result[t].text = GenericClean(calls[t][2].arg)
            /\ \A i \in 1..Len(result[t].text) : result[t].text[i] # ESC

\* the git processor left an escape sequence in and the result has none
C6_Witness ==
    \E t \in Threads :
        /\ pc[t] = "returned"
        /\ result[t].was
        /\ result[t].name = "git"
        /\ \E i \in 1..Len(calls[t][2].arg) : calls[t][2].arg[i] = ESC

\* C7: no processor raises; in particular GitProcessor's log parsing
\* accepts every line that begins with "commit ".
C7_NoProcessorRaises ==
    \A t \in Threads : pc[t] # "raised"

\* C9: the registry is in strictly ascending priority, no two processors
\* share a priority, its last entry is the generic processor (999), and
\* that last entry is the engine's generic.
C9_RegistryOrdering ==
    /\ Len(processors) = Cardinality(ProcessorClasses)
    /\ \A i, j \in 1..Len(processors) :
            i < j => processors[i].priority < processors[j].priority
    /\ processors # <<>>
    /\ processors[Len(processors)].name = "generic"
    /\ processors[Len(processors)].priority = 999
    /\ \A t \in Threads :
            pc[t] = "returned" /\ Len(calls[t]) = 4
            => calls[t][3].proc = processors[Len(processors)].name

\* the engine ran its second pass on the last entry of a full registry
C9_Witness ==
    \E t \in Threads :
        /\ pc[t] = "returned"
        /\ Len(processors) = 17
        /\ selected[t] = 1
        /\ Len(calls[t]) = 4
        /\ calls[t][3].proc = "generic"

-----------------------------------------------------------------------------
(* Properties of the diff reducer: src/src/processors/git.py.              *)

\* line i lies in a hunk: an "@@" line precedes it, with no "diff --git"
\* line and no other "@@" line in between and after a "diff --git" line
InHunk(lines, i) ==
    \E h \in 1..(i - 1) :
        /\ IsHunkMarker(lines[h])
        /\ \E d \in 1..(h - 1) : IsDiffGit(lines[d])
        /\ \A k \in (h + 1)..i : ~IsHunkMarker(lines[k]) /\ ~IsDiffGit(lines[k])

\* line i is a changed line of a hunk: its first character is "+" or "-"
IsChangedLine(lines, i) ==
    /\ InHunk(lines, i)
    /\ lines[i] # <<>>
    /\ lines[i][1] \in {"+", "-"}

\* the lines of the hunk that line i lies in
HunkBody(lines, i) ==
    { j \in 1..Len(lines) :
        /\ InHunk(lines, j)
        /\ \A k \in (IF i < j THEN i ELSE j)..(IF i < j THEN j ELSE i) :
                ~IsHunkMarker(lines[k]) /\ ~IsDiffGit(lines[k]) }

\* the changed lines of the hunks, in their order
RECURSIVE ChangedLines(_, _)
ChangedLines(lines, i) ==
    IF i > Len(lines) THEN <<>>
    ELSE (IF IsChangedLine(lines, i) THEN <<lines[i]>> ELSE <<>>)
         \o ChangedLines(lines, i + 1)

\* C10: when no hunk has more lines than max_diff_hunk_lines, every
\* changed line of a hunk - first character "+" or "-", whatever follows -
\* is in the result verbatim, in the order of the input.
C10_DiffFidelity ==
    ( /\ dPc = "done"
      /\ \A i \in 1..Len(dLines) :
            Cardinality(HunkBody(dLines, i)) <= dCfg.max_hunk )
    => IsSubseq(ChangedLines(dLines, 1), SplitLines(dOut))

\* the context lines of lines[a..b], in their order
RECURSIVE ContextLines(_, _, _)
ContextLines(lines, a, b) ==
    IF a > b THEN <<>>
    ELSE (IF IsContext(lines[a]) THEN <<lines[a]>> ELSE <<>>)
         \o ContextLines(lines, a + 1, b)

\* context line i is within n context lines after a changed line, or within
\* the last n context lines before the next changed line, with no marker
\* and no other changed line in between
NearChange(lines, i, n) ==
    \E j \in 1..Len(lines) :
        /\ j # i
        /\ lines[j] # <<>> /\ lines[j][1] \in {"+", "-"}
        /\ LET lo == IF j < i THEN j + 1 ELSE i
               hi == IF j < i THEN i ELSE j - 1
           IN /\ \A k \in lo..hi :
                    /\ ~IsHunkMarker(lines[k]) /\ ~IsDiffGit(lines[k])
                    /\ ~(lines[k] # <<>> /\ lines[k][1] \in {"+", "-"})
              /\ Len(ContextLines(lines, lo, hi)) <= n

\* the context lines that the window of n lines around the changes admits
RECURSIVE WindowContext(_, _, _)
WindowContext(lines, i, n) ==
    IF i > Len(lines) THEN <<>>
    ELSE (IF IsContext(lines[i]) /\ NearChange(lines, i, n)
          THEN <<lines[i]>> ELSE <<>>)
         \o WindowContext(lines, i + 1, n)

\* C11: for every max_diff_context_lines N >= 0, the context lines of the
\* result are context lines of the input that lie within N context lines
\* after a changed line or within the last N before the next one.
C11_ContextWindow ==
    (dPc = "done" /\ HasDiffGit(dLines))
    => LET out == SplitLines(dOut)
       IN IsSubseq(ContextLines(out, 1, Len(out)),
                   WindowContext(dLines, 1, dCfg.max_context))

\* per stretch of lines between markers (the first one before any marker):
\* whether more than max_hunk lines of it took the change or context branch
RECURSIVE OverCap(_, _, _, _)
OverCap(lines, i, count, max_hunk) ==
    IF i > Len(lines) THEN << count > max_hunk >>
    ELSE IF IsDiffGit(lines[i]) \/ IsHunkMarker(lines[i])
         THEN << count > max_hunk >> \o OverCap(lines, i + 1, 0, max_hunk)
    ELSE OverCap(lines, i + 1,
                 count + (IF LineKind(lines[i]) \in {"change", "context"}
                          THEN 1 ELSE 0),
                 max_hunk)

\* per stretch of result lines between markers: [notices, lines] with the
\* number of truncation notices and of change and context lines in it
RECURSIVE Stretches(_, _, _, _)
Stretches(out, i, cur, notice) ==
    IF i > Len(out) THEN << cur >>
    ELSE IF IsDiffGit(out[i]) \/ IsHunkMarker(out[i])
         THEN << cur >> \o Stretches(out, i + 1, [notices |-> 0, lines |-> 0], notice)
    ELSE IF out[i] = notice
         THEN Stretches(out, i + 1, [cur EXCEPT !.notices = @ + 1], notice)
    ELSE Stretches(out, i + 1,
                   [cur EXCEPT !.lines = @ + (IF LineKind(out[i]) \in {"change", "context"}
                                              THEN 1 ELSE 0)],
                   notice)

\* a truncation notice stands before a marker line or at the end of the
\* result, where only the stat summary may follow it
NoticePlaced(out, notice) ==
    \A p \in 1..Len(out) :
        out[p] = notice =>
            \/ p = Len(out)
            \/ IsDiffGit(out[p + 1]) \/ IsHunkMarker(out[p + 1])
            \/ p + 1 = Len(out) /\ IsStatSummary(out[p + 1])

RECURSIVE PureContext(_, _, _)
PureContext(lines, i, pure) ==
    IF i > Len(lines) THEN << pure >>
    ELSE IF IsDiffGit(lines[i]) \/ IsHunkMarker(lines[i])
         THEN << pure >> \o PureContext(lines, i + 1, TRUE)
    ELSE PureContext(lines, i + 1, pure /\ LineKind(lines[i]) = "context")

\* the index of the last marker among the first n lines, 0 if there is none
LastMarker(lines, n) ==
    LET M == { i \in 1..n : IsDiffGit(lines[i]) \/ IsHunkMarker(lines[i]) }
    IN IF M = {} THEN 0 ELSE CHOOSE i \in M : \A j \in M : j <= i

\* the buffer and the allowance at a point of the scan come from the lines
\* after the last marker
ScanStateFromHunk ==
    dPc = "scan" =>
        LET m == LastMarker(dLines, dPos)
        IN /\ IsSubseq(dScan.leading_buffer, ContextLines(dLines, m + 1, dPos))
           /\ dScan.trailing_remaining > 0
                => \E j \in (m + 1)..dPos : LineKind(dLines[j]) = "change"

\* every marker empties the buffer and the allowance
MarkerResets ==
    [][ (DiffMarkerLine \/ DiffHunkLine)
            => /\ dScan'.leading_buffer = <<>>
               /\ dScan'.trailing_remaining = 0 ]_vars

\* what the stretches of context lines only leave in the result: no change
\* or context line, and as many notices as noticeOf gives for the stretch
PureHunksLeave(withNotice) ==
    (dPc = "done" /\ HasDiffGit(dLines)) =>
        LET out == SplitLines(dOut)
            notice == TruncNotice(dCfg.max_hunk)
            pure == PureContext(dLines, 1, TRUE)
            over == OverCap(dLines, 1, 0, dCfg.max_hunk)
            got == Stretches(out, 1, [notices |-> 0, lines |-> 0], notice)
        IN /\ Len(got) = Len(pure)
           /\ \A k \in 2..Len(pure) :
                pure[k] => /\ got[k].lines = 0
                           /\ got[k].notices = (IF withNotice /\ over[k] THEN 1 ELSE 0)

\* C26 as amended: the leading buffer and the trailing allowance are reset at
\* every "diff --git" and "@@" marker, so no context line is emitted after a
\* marker that follows it, and a hunk of context lines only leaves nothing in
\* the result but its marker line and, when it has more than
\* max_diff_hunk_lines lines, the truncation notice.
C26_PerHunkState ==
    /\ [](ScanStateFromHunk /\ PureHunksLeave(TRUE))
    /\ MarkerResets

\* C26 as stated: a hunk of context lines only leaves nothing in the result
\* but its marker line.
C26_PureHunkOnlyMarker ==
    /\ [](ScanStateFromHunk /\ PureHunksLeave(FALSE))
    /\ MarkerResets

\* a context line buffered before a marker is dropped at the marker, and the
\* change after the marker is emitted without it
C26_Witness ==
    /\ dPc = "done"
    /\ dCfg.max_context = 3
    /\ dLines = << <<"diff --git">>, <<SP, "c">>, <<"@@">>, <<"+", "x">> >>
    /\ SplitLines(dOut) = << <<"diff --git">>, <<"@@">>, <<"+", "x">> >>

-----------------------------------------------------------------------------
(* Properties of the cloud-CLI JSON summarizer.                            *)

\* the fields of v named "id", "status" or "error" that hold a string, each
\* with the path of keys and list positions that leads to it
RECURSIVE NamedFields(_, _)
NamedFields(v, prefix) ==
    IF v.t = "dict"
    THEN UNION { LET item == v.items[i]
                     here == prefix \o <<item.k>>
                 IN (IF item.k \in {"id", "status", "error"} /\ item.v.t = "str"
                     THEN { [path |-> here, value |-> item.v] } ELSE {})
                    \cup NamedFields(item.v, here) : i \in 1..Len(v.items) }
    ELSE IF v.t = "list"
    THEN UNION { NamedFields(v.items[i], prefix \o <<ToString(i)>>) :
                    i \in 1..Len(v.items) }
    ELSE {}

\* the value found in v along path; a string "(absent)" if the path ends early
RECURSIVE ValueAt(_, _)
ValueAt(v, path) ==
    IF path = <<>> THEN v
    ELSE IF v.t = "dict" /\ \E i \in 1..Len(v.items) : v.items[i].k = Head(path)
    THEN ValueAt(v.items[CHOOSE i \in 1..Len(v.items) : v.items[i].k = Head(path)].v,
                 Tail(path))
    ELSE IF v.t = "list" /\ \E i \in 1..Len(v.items) : ToString(i) = Head(path)
    THEN ValueAt(v.items[CHOOSE i \in 1..Len(v.items) : ToString(i) = Head(path)],
                 Tail(path))
    ELSE JStr("(absent)", 8)

\* C13: every field named "id", "status" or "error" of the summarized
\* object, at whatever depth, has its value in the result (a long string
\* possibly shortened), also where sibling branches are collapsed.
C13_ImportantKeysKept ==
    fPc = "done" =>
        \A f \in NamedFields(fArg, <<>>) :
            ValueAt(fRet, f.path).s = f.value.s

-----------------------------------------------------------------------------
(* Properties of the lint processor.                                       *)

\* the violation lines of rule in lines, stripped, in input order
RECURSIVE Occurrences(_, _)
Occurrences(lines, rule) ==
    IF lines = <<>> THEN <<>>
    ELSE (IF _parse_violation(Strip(Head(lines))).rule = rule
          THEN <<Strip(Head(lines))>> ELSE <<>>)
         \o Occurrences(Tail(lines), rule)

\* the "R: K occurrences" line of rule for the given occurrences
OccurrencesLine(rule, occ) ==
    LET files == { occ[i][1] : i \in 1..Len(occ) }
    IN <<"  ", rule, ": ", ToString(Len(occ)), " occurrences">>
       \o (IF Cardinality(files) > 1
           THEN <<" in ", ToString(Cardinality(files)), " files">> ELSE <<>>)

\* some line of out names rule with " occurrences"
HasOccurrencesLine(out, rule) ==
    \E p \in 1..Len(out) :
        Len(out[p]) >= 5 /\ out[p][2] = rule /\ out[p][5] = " occurrences"

\* out holds, from some line on, the lines of block one after the other
HoldsBlock(out, block) ==
    \E p \in 0..(Len(out) - Len(block)) :
        \A i \in 1..Len(block) : out[p + i] = block[i]

\* the rules of LintLineSet
LintRules == {"E501", "F401"}

\* a lint output with at least one parsed violation has been processed
LintDone ==
    /\ fPc = "done"
    /\ \E r \in LintRules : Occurrences(fArg.lines, r) # <<>>

\* C14, as stated: a rule with K > lint_group_threshold occurrences has its
\* "R: K occurrences" line, then the first lint_example_count occurrences,
\* then a remainder count of K - lint_example_count; a rule with
\* K <= lint_group_threshold has its K lines and no "occurrences" line.
C14_LintGroupingAnyCount ==
    LintDone =>
        \A r \in LintRules :
            LET occ == Occurrences(fArg.lines, r)
                K == Len(occ)
                E == fArg.cfg.example_count
            IN IF K > fArg.cfg.group_threshold
               THEN HoldsBlock(fRet,
                        << OccurrencesLine(r, occ) >>
                        \o [i \in 1..(IF E < K THEN E ELSE K) |-> <<"    ">> \o occ[i]]
                        \o << <<"    ... (", ToString(K - E), " more)">> >>)
               ELSE /\ \A i \in 1..K : \E p \in 1..Len(fRet) : fRet[p] = <<"  ">> \o occ[i]
                    /\ ~HasOccurrencesLine(fRet, r)

\* C14: a rule with K > lint_group_threshold occurrences has its
\* "R: K occurrences" line (with the file count when above one), then its
\* first min(K, lint_example_count) occurrences in input order, then, if
\* K > lint_example_count, the remainder count K - lint_example_count and
\* otherwise no remainder line; a rule with K <= lint_group_threshold has
\* its K lines one by one and no "occurrences" line.
C14_LintGrouping ==
    LintDone =>
        \A r \in LintRules :
            LET occ == Occurrences(fArg.lines, r)
                K == Len(occ)
                E == fArg.cfg.example_count
                block == << OccurrencesLine(r, occ) >>
                         \o [i \in 1..(IF E < K THEN E ELSE K) |-> <<"    ">> \o occ[i]]
                more == <<"    ... (", ToString(K - E), " more)">>
            IN IF K > fArg.cfg.group_threshold
               THEN IF K > E
                    THEN HoldsBlock(fRet, block \o <<more>>)
                    ELSE /\ HoldsBlock(fRet, block)
                         /\ ~HoldsBlock(fRet, block \o <<more>>)
               ELSE /\ K > 0 => HoldsBlock(fRet, [i \in 1..K |-> <<"  ">> \o occ[i]])
                    /\ ~HasOccurrencesLine(fRet, r)

\* E501 is grouped with one example and a remainder while F401 stays as it is
C14_Witness ==
    /\ fPc = "done"
    /\ fArg.cfg = [example_count |-> 1, group_threshold |-> 1]
    /\ Len(Occurrences(fArg.lines, "E501")) = 2
    /\ Len(Occurrences(fArg.lines, "F401")) = 1
    /\ HoldsBlock(fRet, << <<"  ", "E501", ": ", "2", " occurrences", " in ", "2", " files">> >>)
    /\ HoldsBlock(fRet, << <<"    ... (", "1", " more)">> >>)

\* C15: every line of a lint output that is no violation and no summary
\* and holds a failure word (error, fatal, cannot, failed) is in the
\* result, however many such lines there are.
C15_LintFailuresKept ==
    fPc = "done" =>
        \A i \in 1..Len(fArg.lines) :
            LET line == Strip(fArg.lines[i])
            IN LintKind(line) = "ungrouped" /\ HasFailureWord(line)
               => \E p \in 1..Len(fRet) : Strip(fRet[p]) = line

-----------------------------------------------------------------------------
(* Properties of the pytest reducer: src/src/processors/test_output.py.    *)

IsBarLine(line) == Len(line) >= 2 /\ line[1] = "=" /\ line[Len(line)] = "="

IsFailuresHeader(line) == IsBarLine(line) /\ line[2] = " FAILURES "

IsWarningsHeader(line) == IsBarLine(line) /\ line[2] = " warnings summary "

IsTestHeader(line) == Len(line) >= 3 /\ line[1] = "_" /\ line[Len(line)] = "_"

\* "failures", "warnings" or "none": the section that line i of lines lies in
RECURSIVE SectionOf(_, _)
SectionOf(lines, i) ==
    IF i = 0 THEN "none"
    ELSE IF IsFailuresHeader(lines[i]) THEN "failures"
    ELSE IF IsWarningsHeader(lines[i]) THEN "warnings"
    ELSE IF IsBarLine(lines[i]) THEN "none"
    ELSE SectionOf(lines, i - 1)

\* line i of lines is a line of a failure block
InFailureBlock(lines, i) ==
    /\ SectionOf(lines, i) = "failures"
    /\ ~IsBarLine(lines[i]) /\ ~IsTestHeader(lines[i])

\* the failure blocks of lines, as pairs <<first, last>> of line numbers
FailureBlocks(lines) ==
    { b \in (1..Len(lines)) \X (1..Len(lines)) :
        /\ b[1] <= b[2]
        /\ \A i \in b[1]..b[2] : InFailureBlock(lines, i)
        /\ b[1] = 1 \/ ~InFailureBlock(lines, b[1] - 1)
        /\ b[2] = Len(lines) \/ ~InFailureBlock(lines, b[2] + 1) }

PytestDone == fPc = "done" /\ fArg.fn = "pytest"

\* C16: every line of every failure block of at most max_traceback_lines
\* lines is in the result, verbatim and in input order, whatever the lines
\* hold.
C16_FailureTracesKept ==
    PytestDone =>
        \A b \in FailureBlocks(fArg.lines) :
            b[2] - b[1] + 1 <= fArg.max_lines
                => IsSubseq(SubSeq(fArg.lines, b[1], b[2]), fRet)

HasPassed(line) == \E i \in 1..Len(line) : line[i] = "PASSED"

\* the numbers of the result lines with PASSED outside both sections
PassedOutside(lines) ==
    { i \in 1..Len(lines) : HasPassed(lines[i]) /\ SectionOf(lines, i) = "none"
                            /\ ~IsBarLine(lines[i]) }

\* a "=== ... ===" line that opens no section
IsSummaryLine(line) ==
    /\ IsBarLine(line)
    /\ line[2] \notin {" test session starts ", " FAILURES ", " warnings summary "}

CountIn(lines, P(_)) == Cardinality({ i \in 1..Len(lines) : P(lines[i]) })

\* C17: the PASSED result lines outside the failures and warnings sections
\* are removed from the result, whose first line is "[N tests passed]" with N
\* their number when N > 0; every final "=== ... ===" summary line is kept.
C17_PassedCollapsed ==
    PytestDone =>
        LET N == Cardinality(PassedOutside(fArg.lines))
        IN /\ CountIn(fRet, HasPassed) <= CountIn(fArg.lines, HasPassed) - N
           /\ N > 0 => fRet[1] = <<"[", ToString(N), " tests passed]">>
           /\ \A i \in 1..Len(fArg.lines) :
                IsSummaryLine(fArg.lines[i]) =>
                    CountIn(fRet, LAMBDA l : l = fArg.lines[i])
                        >= CountIn(fArg.lines, LAMBDA l : l = fArg.lines[i])

\* a PASSED line outside the sections, one inside, and a summary line
C17_Witness ==
    /\ PytestDone
    /\ Cardinality(PassedOutside(fArg.lines)) = 1
    /\ CountIn(fArg.lines, HasPassed) = 2
    /\ CountIn(fArg.lines, IsSummaryLine) > 0
    /\ fRet[1] = <<"[", "1", " tests passed]">>

\* the class of a warning line, "" for a line without one
ClassOf(line) ==
    IF \E i \in 1..(Len(line) - 2) :
            line[i] \in {"UserWarning", "DeprecationWarning"} /\ line[i + 1] = ": "
    THEN line[CHOOSE i \in 1..(Len(line) - 2) :
            line[i] \in {"UserWarning", "DeprecationWarning"} /\ line[i + 1] = ": "]
    ELSE ""

ClassCount(lines, c) == CountIn(lines, LAMBDA l : ClassOf(l) = c)

\* C18: the collapsed warnings carry one entry "Type xN" per warning class
\* with N the number of lines of that class, and exactly one example line,
\* which is a line of the most frequent class.
C18_WarningsCollapsed ==
    (fPc = "done" /\ fArg.fn = "warnings"
        /\ \E i \in 1..Len(fArg.lines) : ClassOf(fArg.lines[i]) # "") =>
        /\ Len(fRet) = 2
        /\ \A c \in {"UserWarning", "DeprecationWarning"} :
            IF ClassCount(fArg.lines, c) > 0
            THEN HoldsBlock(fRet[1], <<c, " x", ToString(ClassCount(fArg.lines, c))>>)
            ELSE \A a \in 1..Len(fRet[1]) : fRet[1][a] # c
        /\ \E i \in 1..Len(fArg.lines) :
            /\ fRet[2] = <<"  e.g. ">> \o fArg.lines[i]
            /\ ClassOf(fArg.lines[i]) # ""
            /\ \A c \in {"UserWarning", "DeprecationWarning"} :
                ClassCount(fArg.lines, c) <= ClassCount(fArg.lines, ClassOf(fArg.lines[i]))

-----------------------------------------------------------------------------
(* Properties of compress on env output: src/src/processors/env.py.        *)

HasAtom(text, a) == \E i \in 1..Len(text) : text[i] = a

\* C19: the text compress returns for an env or printenv output holds no
\* value of a sensitive variable, holds the variable's name, and is the same
\* for every value of the secret.
C19_NoSecretLeak ==
    (fPc = "done" /\ fArg.fn = "env") =>
        /\ \A s \in EnvSecrets :
            /\ ~HasAtom(fRet[s].text, s)
            /\ HoldsBlock(fRet[s].text, fArg.name)
        /\ \A s, t \in EnvSecrets : fRet[s].text = fRet[t].text

-----------------------------------------------------------------------------
(* Properties of the configuration load: src/src/config.py.                *)

\* the raw string parses for the type of the key's default
ParsesFor(k, raw) ==
    \/ KeyType(k) = "bool"
    \/ KeyType(k) = "int" /\ raw \in DOMAIN IntOf
    \/ KeyType(k) = "float" /\ raw \in DOMAIN FloatOf

ParsedFor(k, raw) ==
    IF KeyType(k) = "bool" THEN Lower(raw) \in {"1", "true", "yes"}
    ELSE IF KeyType(k) = "int" THEN IntOf[raw]
    ELSE FloatOf[raw]

\* environment, then file, then default
ByPrecedence(k, file, env) ==
    IF k \in DOMAIN env /\ ParsesFor(k, env[k]) THEN ParsedFor(k, env[k])
    ELSE IF file.state = "ok" /\ k \in DOMAIN file.vals THEN file.vals[k]
    ELSE _DEFAULTS[k]

\* C20: the load never fails, whatever the environment values and the state
\* of the persisted file, and config.get(key) is the parsed environment
\* value, else the file's value, else the default.
C20_ConfigPrecedence ==
    (fPc = "done" /\ fArg.fn = "config") =>
        /\ ~fRet.raised
        /\ \A k \in ConfigKeys : fRet.table[k] = ByPrecedence(k, fArg.file, fArg.env)

\* C21: a numeric threshold set out of range in the persisted file or in the
\* environment is clamped: config.get hands no negative value to its callers.
C21_OutOfRangeClamped ==
    (fPc = "done" /\ fArg.fn = "config" /\ ~fRet.raised) =>
        \A k \in ConfigKeys : KeyType(k) # "bool" => fRet.table[k] >= 0

-----------------------------------------------------------------------------
(* Properties of the list summaries: cloud_cli.py, file_content.py.        *)

\* the elements of the summarized list, each summarized at the list's depth
CloudItems(n) ==
    [i \in 1..n |-> _compress_json_value(fArg.value.items[i], fArg.depth, 4)]

RECURSIVE FileItems(_, _)
\* the first n elements, each summarized at the list's depth, joined by ", "
FileItems(i, n) ==
    IF i > n THEN <<>>
    ELSE _summarize_json_value(fArg.value.items[i], fArg.depth, 2)
         \o (IF i < n THEN <<", ">> ELSE <<>>) \o FileItems(i + 1, n)

\* C25: in both summarizers a list's elements are summarized at the depth of
\* the list; a list up to the threshold (5, and 3 in file_content) has all
\* elements summarized, a longer one of length L the first 3 and then the
\* count L - 3 of the remainder.
C25_ListsSummarized ==
    LET L == Len(fArg.value.items)
    IN /\ (fPc = "done" /\ fArg.fn = "cloud_list" /\ L > 0) =>
            IF L <= 5 THEN fRet = JList(CloudItems(L))
            ELSE /\ Len(fRet.items) = 4
                 /\ SubSeq(fRet.items, 1, 3) = CloudItems(3)
                 /\ fRet.items[4].s = "... (" \o ToString(L - 3) \o " more items)"
       /\ (fPc = "done" /\ fArg.fn = "file_list" /\ L > 0) =>
            IF L <= 3 THEN fRet = <<"[">> \o FileItems(1, L) \o <<"]">>
            ELSE /\ StartsWith(fRet, <<"[">> \o FileItems(1, 3))
                 /\ HasAtom(SubSeq(fRet, Len(FileItems(1, 3)) + 2, Len(fRet)),
                            ToString(L - 3))

-----------------------------------------------------------------------------
(* Properties of the token estimate: src/src/tracker.py.                   *)

DefaultTable == _load_config([state |-> "absent", vals |-> NoVals], NoVals)

\* C27: under the default configuration _chars_to_tokens(n) returns 0 for
\* n = 0 and max(1, round(n / 4)) for n > 0 without failing, and
\* format_stats_message returns a message with the lifetime summary once a
\* saving has been recorded.
C27_TokenEstimate ==
    (fPc = "done" /\ fArg.table = DefaultTable) =>
        /\ fArg.fn = "tokens" =>
              /\ fRet.raised = ""
              /\ fRet.value = (IF fArg.n = 0 THEN 0
                               ELSE IF RoundHalfEven(fArg.n, 4) > 1
                                    THEN RoundHalfEven(fArg.n, 4) ELSE 1)
        /\ (fArg.fn = "stats" /\ fArg.lifetime.commands > 0) =>
              /\ fRet.raised = ""
              /\ \E i \in 1..Len(fRet.value) : fRet.value[i] = "Lifetime: "

-----------------------------------------------------------------------------
(* Properties of the life of the configuration: src/src/config.py.         *)

-----------------------------------------------------------------------------
(* Properties of the pytest line scan:                                     *)
(* src/src/processors/test_output.py.                                      *)

IsPrefix(a, b) == Len(a) <= Len(b) /\ SubSeq(b, 1, Len(a)) = a

\* C29: in_failure and in_warnings are never both true; a line is appended
\* to the failure block only in a failure block and to the warning list only
\* in a warnings section; a buffer is emptied only by handing it to the
\* result, and what is still buffered when the scan ends is in the result.
C29_ScannerStates ==
    /\ [](fPc \in {"scan", "done"} =>
            /\ ~(fRet.st.in_failure /\ fRet.st.in_warnings)
            /\ fRet.st.failure_block # <<>> => fRet.st.in_failure)
    /\ [][ PytestLine =>
            LET st == fRet.st
                nx == fRet'.st
                line == fArg.lines[fRet.pos + 1]
            IN /\ nx.failure_block \in {st.failure_block, <<>>,
                                        Append(st.failure_block, line)}
               /\ nx.warning_lines \in {st.warning_lines, <<>>,
                                        Append(st.warning_lines, Strip(line))}
               /\ nx.failure_block = Append(st.failure_block, line)
                    => st.in_failure /\ ~st.in_warnings /\ nx.in_failure
               /\ nx.warning_lines = Append(st.warning_lines, Strip(line))
                    => st.in_warnings /\ ~st.in_failure /\ nx.in_warnings
               /\ (st.failure_block # <<>> /\ nx.failure_block = <<>>)
                    => IsPrefix(st.result \o _truncate_traceback(st.failure_block,
                                                                 fArg.max_lines),
                                nx.result)
               /\ (st.warning_lines # <<>> /\ nx.warning_lines = <<>>)
                    => IsPrefix(st.result \o _collapse_warnings(st.warning_lines),
                                nx.result) ]_vars
    /\ [](fPc = "done" =>
            /\ fRet.out = _process_pytest(fArg.lines, fArg.max_lines)
            /\ (fRet.st.failure_block # <<>> \/ fRet.st.warning_lines # <<>>) =>
                  \E a, b \in 0..Len(fRet.out) :
                      /\ a <= b
                      /\ SubSeq(fRet.out, a + 1, b) =
                            fRet.st.result
                            \o _collapse_warnings(fRet.st.warning_lines)
                            \o _truncate_traceback(fRet.st.failure_block, fArg.max_lines))

\* the scan ended in a failure block, with lines of a warnings section that
\* was never closed still buffered, and both are in the result
C29_Witness ==
    /\ fPc = "done"
    /\ fRet.st.in_failure /\ ~fRet.st.in_warnings
    /\ fRet.st.failure_block = << <<"E", SP, "assert 0">> >>
    /\ fRet.st.warning_lines # <<>>
    /\ fRet.out = << <<"=", " FAILURES ", "=">> >>
                  \o _collapse_warnings(fRet.st.warning_lines)
                  \o << <<"E", SP, "assert 0">> >>

-----------------------------------------------------------------------------
(* Properties of the hosts' usage tracking: src/claude/wrap.py and         *)
(* src/gemini/hook_aftertool.py.                                           *)

-----------------------------------------------------------------------------
(* Properties of the savings tracker: src/src/tracker.py.                  *)

\* both threads have made all their record_saving calls on the one tracker
\* k1, and no statement of theirs has failed
AllRecordedOnOne ==
    /\ \A w \in Workers : wk[w].pc = "idle" /\ wk[w].tracker = "k1"
    /\ \A w \in Workers : wk[w].left = 0 /\ wk[w].failed = 0

\* C22: after any interleaving of the threads' record_saving calls on one
\* tracker, none of which fails, the command count of the session is the
\* number of calls and its totals are the sums of the recorded sizes; no
\* thread has seen an exception.
C22_NoLostUpdates ==
    AllRecordedOnOne =>
        /\ "s1" \in DOMAIN store.tables.sessions
        /\ store.tables.sessions["s1"].command_count
              = Cardinality(Workers) * MaxRecords
        /\ store.tables.sessions["s1"].total_original
              = MaxRecords * (Sizes["w1"].original + Sizes["w2"].original)
        /\ store.tables.sessions["s1"].total_compressed
              = MaxRecords * (Sizes["w1"].compressed + Sizes["w2"].compressed)
        /\ \A w \in Workers : wk[w].seen # <<"raised">>

\* the calls of the two threads took turns
C22_Witness ==
    /\ AllRecordedOnOne
    /\ Len(store.tables.savings) = Cardinality(Workers) * MaxRecords
    /\ store.tables.savings[1].original_size # store.tables.savings[2].original_size
    /\ store.tables.savings[2].original_size # store.tables.savings[3].original_size
    /\ store.tables.sessions["s1"].command_count = Cardinality(Workers) * MaxRecords

\* C23: over a file that is not a valid store the constructor does not fail,
\* the file is discarded and an empty store with both tables is made, and a
\* record_saving that follows is counted by get_session_stats.
C23_SelfHeals ==
    (store.found \in {"garbage", "damaged"} /\ ~store.faults /\ kpc["k2"] = "new") =>
        /\ kpc["k1"] # "new" => store.file = "valid"
        /\ kpc["k1"] \in {"inited", "ready"} => store.tables.exist
        /\ \A w \in Workers :
              (wk[w].pc # "off" /\ wk[w].seen # <<>>)
                  => wk[w].seen[1] \notin {"raised", "0"}

\* C30: in every state of the store each session row has as command_count
\* the number of savings rows of its session and as totals the sums of
\* their sizes; a record_saving that fails leaves both tables as they were.
C30_AggregatesMatchLog ==
    /\ [](LET RECURSIVE Sum(_, _)
              Sum(rows, field) ==
                  IF rows = <<>> THEN 0
                  ELSE Head(rows)[field] + Sum(Tail(rows), field)
              RowsOf(sid) ==
                  SelectSeq(store.tables.savings, LAMBDA r : r.session_id = sid)
          IN \A sid \in DOMAIN store.tables.sessions :
                /\ store.tables.sessions[sid].command_count = Len(RowsOf(sid))
                /\ store.tables.sessions[sid].total_original
                      = Sum(RowsOf(sid), "original_size")
                /\ store.tables.sessions[sid].total_compressed
                      = Sum(RowsOf(sid), "compressed_size"))
    /\ [][ \A w \in Workers :
             RecRollback(w) => /\ store' = store
                               /\ conn'[wk[w].tracker].tx = <<>> ]_vars

-----------------------------------------------------------------------------
(* Properties of concurrent callers: src/src/engine.py, src/src/config.py. *)

\* C8: whatever the other callers of the engine did before or do meanwhile,
\* the tuple a call returns is the one the sequential compress computes from
\* its command, its output and the loaded configuration alone.
C8_Stateless ==
    \A t \in Threads :
        Finished(t)
        => result[t] = compress(command[t], output[t], LoadedConfig, processors)

\* one caller has its compressed result while another, on a different
\* command and output, is between its two passes
C8_Witness ==
    \E t, u \in Threads :
        /\ t # u
        /\ pc[t] = "returned" /\ result[t].was
        /\ pc[u] = "fallback"
        /\ command[t] # command[u]
        /\ output[t] # output[u]

====
